---- MODULE Spec2Model ----
(***************************************************************************)
(* Model of the ln-ai-network agent control plane:                         *)
(*   ai/command_queue.py   the file-backed inbox/outbox queue              *)
(*   ai/agent.py           LightningAgent.run and its handlers             *)
(*   mcp/client/fastmcp.py FastMCPClient.call (line protocol, client side) *)
(*   mcp/ln_mcp_server.py  handle_request / main (the worker)              *)
(*                                                                         *)
(* Files are modelled by their content.  inbox.jsonl is a sequence of      *)
(* bytes (tokens), so that the byte offset kept in inbox.offset and        *)
(* data.splitlines() / json.loads() do real work.  inbox.offset and        *)
(* msg.counter hold decimal text: <<>> is the empty file, <<n>> is str(n). *)
(***************************************************************************)
EXTENDS Integers, Sequences, FiniteSets, TLC

\* ------------------------------------------------------------------ bounds
MaxLines == 2
MaxForeign == 1
MaxDowns == 1
NumProducers == 2
MaxEnqueues == 2
MaxProducerCrashes == 1

\* ------------------------------------------------------------- variables
VARIABLES
    inbox,        \* runtime/agent/inbox.jsonl: sequence of bytes
    outbox,       \* runtime/agent/outbox.jsonl: sequence of report records, one per line
    offsetFile,   \* runtime/agent/inbox.offset
    counterFile,  \* runtime/agent/msg.counter
    pc,           \* position of the agent process in LightningAgent.run
    rn,           \* read_new locals: offset read, len(data)
    msgs,         \* the batch read_new parsed / returned
    idx,          \* position of the for loop in msgs (1-based)
    cur,          \* handler locals: req_id, kind, step, res
    mcpId,        \* FastMCPClient._id
    walive,       \* the worker process is running
    wstdin,       \* request lines written to the worker and not yet read by it
    wstdout,      \* response lines written by the worker and not yet read
    delivered,    \* history: concatenation of the batches read_new returned
    downs,        \* history: number of times the agent process ended
    stopCause,    \* history: the exception that ended run(), "none" while it runs
    crashInfo,    \* history: where the last crash hit, and the batch in hand
    firstRead,    \* history: what the first read_new after the last crash read
    cursorHigh,   \* history: the largest cursor value a read_new has written
    ppc,          \* producers: position in enqueue()
    pn,           \* producers: local n of _next_id()
    pensure,      \* producers: which ensure() call is running (1: enqueue's, 2: _next_id's)
    pdone,        \* producers: number of enqueue() calls completed
    lockHolder,   \* flock on msg.counter: 0 free, else the producer holding it
    pcrashes,     \* history: number of producer crashes
    now,          \* time.monotonic(), in time units
    lim,          \* the DualRateLimiter: its two buckets and _next_allowed_time
    limCall,      \* history: the last call on the limiter, its arguments and result
    spends,       \* history: the spend() calls made
    bo,           \* the DeterministicBackoff: its parameters and its BackoffState
    boCall,       \* history: the last call on the backoff
    boHist,       \* history: failures since the last success, circuit openings
    permits,      \* ConcurrencyGate permits the agent holds
    sched,        \* the DeterministicScheduler: _cadence_s, _t0, _k
    schedCall,    \* history: the last wait_next_tick call
    gate,         \* the ConcurrencyGate: the value of its semaphore
    held,         \* threads: the permits each thread holds and has not released
    gateCall,     \* history: the last call on the gate
    fnCall,       \* the last call of a pure function: its argument and result
    llm,          \* the agent's LLM gating fields and its freeform handler's locals
    callOut,      \* history: how the last FastMCPClient.call ended
    dispatched,   \* history: per entry id, the handler runs that reached the worker
    crashed       \* history: the agent process has been killed

fileVars == <<inbox, outbox, offsetFile, counterFile>>
agentVars == <<pc, rn, msgs, idx, cur, mcpId>>
workerVars == <<walive, wstdin, wstdout>>
histVars == <<delivered, downs, stopCause, crashInfo, firstRead, cursorHigh>>
prodVars == <<ppc, pn, pensure, pdone, lockHolder, pcrashes>>
auxVars == <<sched, schedCall, gate, held, gateCall, fnCall, llm>>
coreVars == <<now, lim, limCall, spends, bo, boCall, boHist, permits, auxVars>>
traceVars == <<callOut, dispatched, crashed>>
vars == <<fileVars, agentVars, workerVars, histVars, prodVars, coreVars, traceVars>>

\* ----------------------------------------------------------- sequences
Take(s, n) == SubSeq(s, 1, IF n < Len(s) THEN n ELSE Len(s))
Drop(s, n) == SubSeq(s, n + 1, Len(s))
IsPrefix(s, t) == Len(s) <= Len(t) /\ SubSeq(t, 1, Len(s)) = s

\* --------------------------------------------------------------- bytes
Byte(c) == [c |-> c, id |-> 0, kind |-> "", args |-> ""]
NL == Byte("\n")
LB == Byte("{")
RB == Byte("}")
\* The members of the JSON object of a queue entry, as one token.
Body(m) == [c |-> "b", id |-> m.id, kind |-> m.kind, args |-> m.args]
Msg(id, kind, args) == [id |-> id, kind |-> kind, args |-> args]

\* json.dumps(msg) of enqueue(): an object.
Dumps(m) == <<LB, Body(m), RB>>

\* json.loads(ln): ok is FALSE when it raises; isdict is isinstance(obj, dict).
Loads(ln) ==
    IF Len(ln) = 3 /\ ln[1] = LB /\ ln[2].c = "b" /\ ln[3] = RB
    THEN [ok |-> TRUE, isdict |-> TRUE, val |-> Msg(ln[2].id, ln[2].kind, ln[2].args)]
    ELSE IF ln = <<Byte("7")>>
    THEN [ok |-> TRUE, isdict |-> FALSE, val |-> Msg(0, "", "")]
    ELSE [ok |-> FALSE, isdict |-> FALSE, val |-> Msg(0, "", "")]

\* Decimal text of a file: str(n), and int(text.strip() or "0").
Str(n) == <<n>>
ParseInt(text) == IF text = <<>> THEN 0 ELSE text[1]
File(text) == [exists |-> TRUE, text |-> text]
NoFile == [exists |-> FALSE, text |-> <<>>]

\* ------------------------------------------------ command_queue.py: parsing
\* bytes.splitlines() on the newline byte: the lines without their line ends;
\* an unterminated last segment is a line too.
RECURSIVE SplitAcc(_, _, _)
SplitAcc(d, i, ln) ==
    IF i > Len(d) THEN (IF ln = <<>> THEN <<>> ELSE <<ln>>)
    ELSE IF d[i] = NL THEN <<ln>> \o SplitAcc(d, i + 1, <<>>)
    ELSE SplitAcc(d, i + 1, Append(ln, d[i]))
SplitLines(d) == SplitAcc(d, 1, <<>>)

\* A parser that gives up at the first malformed line (break for continue).
RECURSIVE ParseListStopAtBad(_)
ParseListStopAtBad(lines) ==
    IF lines = <<>> THEN <<>>
    ELSE LET r == Loads(Head(lines))
         IN IF r.ok /\ r.isdict THEN <<r.val>> \o ParseListStopAtBad(Tail(lines))
            ELSE <<>>

\* The for loop of read_new: json.loads each line, keep the dicts, skip the rest.
RECURSIVE ParseLoop(_)
ParseLoop(lines) ==
    IF lines = <<>> THEN <<>>
    ELSE LET r == Loads(Head(lines))
         IN (IF r.ok /\ r.isdict THEN <<r.val>> ELSE <<>>) \o ParseLoop(Tail(lines))
ParseList(lines) == ParseLoop(lines)
ParseLines(d) == ParseList(SplitLines(d))

\* The value read_new writes to inbox.offset.
NewOffset(offset, len) == offset + len

\* ensure() for one file that holds decimal text, with no other process around.
EnsureFile(f) == IF f.exists THEN f ELSE File(Str(0))

\* The cursor a read_new call starting now would read.
Cursor == ParseInt(EnsureFile(offsetFile).text)

\* n of _next_id() from the raw text of msg.counter.
NextIdValue(raw) == ParseInt(raw) + 1

\* ------------------------------------------------- agent: constant values
KnownKinds == {"ln_getinfo", "ln_connect"}
Kinds == KnownKinds \cup {"ping"}
EntryShapes ==
    {Msg(0, k, "ok") : k \in Kinds} \cup {Msg(0, "ln_getinfo", "missing")}
\* Complete lines that are no queue entry: garbage, and JSON that is no object.
ForeignLines == {<<Byte("x")>>, <<Byte("7")>>}
\* What the tool behind a request answers: a payload object, an error, a payload
\* that is no object.
Shapes == {"ok", "err", "nonobj"}
Handling == {"loop", "send", "poll", "read", "ret"}
Running == {"tick", "parsed", "truncated"} \cup Handling

NoRn == [offset |-> 0, len |-> 0]
NoRes == [json |-> TRUE, id |-> 0, shape |-> ""]
NoCur == [req_id |-> 0, kind |-> "", step |-> 0, res |-> NoRes]
NoCrash == [at |-> "none", offset |-> 0, batch |-> <<>>, rest |-> <<>>]
NotRead == [set |-> FALSE, offset |-> 0, batch |-> <<>>]
\* firstRead while no crash is being recovered from: nothing to record.
Untracked == [set |-> TRUE, offset |-> 0, batch |-> <<>>]

\* The method of the step-th protocol call of a handler.
Method(kind, step) ==
    IF kind = "ln_connect" /\ step = 1 THEN "ln_getinfo" ELSE kind

\* _write_report: the entry write_outbox appends.
Report(req_id, content) == [request_id |-> req_id, content |-> content]

\* Every exception leaves run().
ExceptTargetNoCatch(exc) == "stopped"

\* The except clauses of run(): where the loop goes after an exception.
ExceptTarget(exc) == IF exc = "KeyboardInterrupt" THEN "stopped" ELSE "tick"

\* An exception raised inside the try block of run(): the rest of the tick is
\* abandoned.
Raise(exc) ==
    /\ pc' = ExceptTarget(exc)
    /\ stopCause' = IF ExceptTarget(exc) = "stopped" THEN exc ELSE stopCause
    /\ rn' = NoRn
    /\ msgs' = <<>>
    /\ idx' = 0
    /\ cur' = NoCur

\* ------------------------------------------------------ producers (atomic)
\* enqueue(content, meta) run alone: ensure(), _next_id(), append one line.
Enqueue(shape) ==
    /\ Len(SplitLines(inbox)) < MaxLines
    /\ LET c == EnsureFile(counterFile)
           n == NextIdValue(c.text)
       IN /\ counterFile' = File(Str(n))
          /\ inbox' = inbox \o Dumps(Msg(n, shape.kind, shape.args)) \o <<NL>>
    /\ UNCHANGED <<outbox, offsetFile, agentVars, workerVars, histVars, prodVars, coreVars, traceVars>>

\* Another writer appends a complete line that is no queue entry.
AppendForeign(ln) ==
    /\ Len(SplitLines(inbox)) < MaxLines + MaxForeign
    /\ Len(SplitLines(inbox)) - Len(ParseLines(inbox)) < MaxForeign
    /\ inbox' = inbox \o ln \o <<NL>>
    /\ UNCHANGED <<outbox, offsetFile, counterFile, agentVars, workerVars, histVars,
                   prodVars, coreVars, traceVars>>

\* ----------------------------------------------------------- read_new()
\* Lines 111-132: ensure(), read the offset, read the inbox from it, parse.
\* An empty read returns [] and run() sleeps to the next tick.
ReadNewRead ==
    /\ pc = "tick"
    /\ LET offset == Cursor
           data == Drop(inbox, offset)
           parsed == ParseLines(data)
       IN /\ firstRead' = IF firstRead.set THEN firstRead
                          ELSE [set |-> TRUE, offset |-> offset, batch |-> parsed]
          /\ offsetFile' = EnsureFile(offsetFile)
          /\ IF data = <<>>
             THEN UNCHANGED <<pc, rn, msgs>>
             ELSE /\ pc' = "parsed"
                  /\ rn' = [offset |-> offset, len |-> Len(data)]
                  /\ msgs' = parsed
    /\ UNCHANGED <<inbox, outbox, counterFile, idx, cur, mcpId, workerVars, delivered,
                   downs, stopCause, crashInfo, cursorHigh, prodVars, coreVars, traceVars>>

\* Opening or reading a queue file fails with OSError: the tick ends there.
ReadNewIOError ==
    /\ pc = "tick"
    /\ Raise("OSError")
    /\ UNCHANGED <<fileVars, mcpId, workerVars, delivered, downs, crashInfo, firstRead,
                   cursorHigh, prodVars, coreVars, traceVars>>

\* Line 134, first half: Path.write_text opens inbox.offset with mode "w",
\* which truncates it.
ReadNewTruncate ==
    /\ pc = "parsed"
    /\ offsetFile' = File(<<>>)
    /\ pc' = "truncated"
    /\ UNCHANGED <<inbox, outbox, counterFile, rn, msgs, idx, cur, mcpId, workerVars,
                   histVars, prodVars, coreVars, traceVars>>

\* Lines 134-135, second half: the new offset is written and msgs returned;
\* run() goes back to sleep when msgs is empty.
ReadNewWrite ==
    /\ pc = "truncated"
    /\ LET new == NewOffset(rn.offset, rn.len)
       IN /\ offsetFile' = File(Str(new))
          /\ cursorHigh' = IF new > cursorHigh THEN new ELSE cursorHigh
    /\ delivered' = delivered \o msgs
    /\ IF msgs = <<>>
       THEN pc' = "tick" /\ idx' = 0 /\ rn' = NoRn
       ELSE pc' = "loop" /\ idx' = 1 /\ rn' = rn
    /\ UNCHANGED <<inbox, outbox, counterFile, msgs, cur, mcpId, workerVars, downs,
                   stopCause, crashInfo, firstRead, prodVars, coreVars, traceVars>>

\* --------------------------------------------------- run(): the for loop
\* The batch is exhausted: _sleep_to_next_tick, next tick.
LoopDone ==
    /\ pc = "loop"
    /\ idx > Len(msgs)
    /\ pc' = "tick"
    /\ rn' = NoRn /\ msgs' = <<>> /\ idx' = 0 /\ cur' = NoCur
    /\ UNCHANGED <<fileVars, mcpId, workerVars, histVars, prodVars, coreVars, traceVars>>

\* else branch: self._write_report(req_id, "Unknown command kind: ...").
DispatchUnknown ==
    /\ pc = "loop"
    /\ idx <= Len(msgs)
    /\ msgs[idx].kind \notin KnownKinds
    /\ outbox' = Append(outbox, Report(msgs[idx].id, "unknown kind"))
    /\ idx' = idx + 1
    /\ UNCHANGED <<inbox, offsetFile, counterFile, pc, rn, msgs, cur, mcpId, workerVars,
                   histVars, prodVars, coreVars, traceVars>>

\* A typed command whose meta lacks a required key, or holds one int() rejects:
\* meta["node"] raises KeyError (int(...) ValueError) before the handler runs.
DispatchBadArgs ==
    /\ pc = "loop"
    /\ idx <= Len(msgs)
    /\ msgs[idx].kind \in KnownKinds
    /\ msgs[idx].args # "ok"
    /\ Raise("KeyError")
    /\ UNCHANGED <<fileVars, mcpId, workerVars, delivered, downs, crashInfo,
                   firstRead, cursorHigh, prodVars, coreVars, traceVars>>

\* A typed command with its arguments: the handler starts its first call.
DispatchCall ==
    /\ pc = "loop"
    /\ idx <= Len(msgs)
    /\ msgs[idx].kind \in KnownKinds
    /\ msgs[idx].args = "ok"
    /\ cur' = [req_id |-> msgs[idx].id, kind |-> msgs[idx].kind, step |-> 1,
               res |-> NoRes]
    /\ pc' = "send"
    /\ UNCHANGED <<fileVars, rn, msgs, idx, mcpId, workerVars, histVars, prodVars, coreVars, traceVars>>

\* ------------------------------------------------- FastMCPClient.call()
\* How a call ended: "returned" or the class of the exception it raised, and
\* what made it fail: the worker had exited, the read gave no data, the line
\* read was no JSON.
Outcome(kind, cause) == [kind |-> kind, cause |-> cause]

Request(id, method) == [id |-> id, method |-> method]

\* History: one more handler run for entry id has written its first request.
Dispatched(id) ==
    IF id \in DOMAIN dispatched THEN [dispatched EXCEPT ![id] = @ + 1]
    ELSE dispatched @@ (id :> 1)

\* Lines 30-43: self._id += 1, write the request line, flush.  With the worker
\* gone the pipe has no reader and the flush raises BrokenPipeError.
CallSend ==
    /\ pc = "send"
    /\ mcpId' = mcpId + 1
    /\ IF walive
       THEN /\ wstdin' = Append(wstdin, Request(mcpId + 1, Method(cur.kind, cur.step)))
            /\ pc' = "poll"
            /\ dispatched' = IF cur.step = 1 THEN Dispatched(cur.req_id) ELSE dispatched
            /\ UNCHANGED <<rn, msgs, idx, cur, stopCause, callOut>>
       ELSE /\ Raise("BrokenPipeError")
            /\ callOut' = Outcome("BrokenPipeError", "exited")
            /\ UNCHANGED <<wstdin, dispatched>>
    /\ UNCHANGED <<fileVars, walive, wstdout, delivered, downs, crashInfo,
                   firstRead, cursorHigh, prodVars, coreVars, crashed>>

\* The call gives up waiting as soon as the request is written.
CallPollNoWait ==
    /\ pc = "poll"
    /\ pc' = "ret"
    /\ UNCHANGED <<fileVars, rn, msgs, idx, cur, mcpId, workerVars, histVars, prodVars, coreVars, traceVars>>

\* Lines 46-48: process.poll(); a worker that has exited raises RuntimeError.
CallPoll ==
    /\ pc = "poll"
    /\ IF walive
       THEN /\ pc' = "read"
            /\ UNCHANGED <<rn, msgs, idx, cur, stopCause, callOut>>
       ELSE /\ Raise("RuntimeError")
            /\ callOut' = Outcome("RuntimeError", "exited")
    /\ UNCHANGED <<fileVars, mcpId, workerVars, delivered, downs, crashInfo,
                   firstRead, cursorHigh, prodVars, coreVars, dispatched, crashed>>

\* Lines 51-57: readline() blocks until a line or end of file; an empty read
\* raises RuntimeError, a line is json.loads-ed and returned.
CallRead ==
    /\ pc = "read"
    /\ \/ /\ wstdout # <<>>
          /\ wstdout' = Tail(wstdout)
          /\ IF Head(wstdout).json
             THEN /\ cur' = [cur EXCEPT !.res = Head(wstdout)]
                  /\ pc' = "ret"
                  /\ callOut' = Outcome("returned", "")
                  /\ UNCHANGED <<rn, msgs, idx, stopCause>>
             ELSE /\ Raise("JSONDecodeError")
                  /\ callOut' = Outcome("JSONDecodeError", "nonjson")
       \/ /\ wstdout = <<>>
          /\ ~walive
          /\ Raise("RuntimeError")
          /\ callOut' = Outcome("RuntimeError", "nodata")
          /\ UNCHANGED wstdout
    /\ UNCHANGED <<fileVars, mcpId, walive, wstdin, delivered, downs, crashInfo,
                   firstRead, cursorHigh, prodVars, coreVars, dispatched, crashed>>

\* ----------------------------------------------------- ln_mcp_server.py
\* The worker answers every request with id 0, as its parse-error path does.
handle_request_id0(req, shape) == [json |-> TRUE, id |-> 0, shape |-> shape]

\* Lines of the worker's stdin that are no request object: a line that is
\* empty once stripped, a line that is no JSON, JSON that is no object.
BlankLine == [blank |-> TRUE]
GarbageLine == [garbage |-> TRUE]
NonObjLine == [nonobj |-> TRUE]

\* The methods handle() knows.
WorkerMethods == {"ln_getinfo", "ln_connect"}

\* handle(method, params): what the tool returned, an error for an unknown
\* method; an exception of the tool is caught and returned as an error.
handle(method, shape) == IF method \in WorkerMethods THEN shape ELSE "err"

\* handle_request: rid = req.get("id", 0); the response carries rid and what
\* handle(method, params) returned, an error when method is no string.
handle_request(req, shape) ==
    [json |-> TRUE,
     id |-> IF "id" \in DOMAIN req THEN req.id ELSE 0,
     shape |-> IF "method" \in DOMAIN req THEN handle(req.method, shape) ELSE "err"]

\* {"id": 0, "error": ...} of main(): the line is no JSON or no object.
ErrorId0 == [json |-> TRUE, id |-> 0, shape |-> "err"]

\* A worker that answers request objects only.
RespondObjectsOnly(line, shape) ==
    IF line \in {BlankLine, GarbageLine, NonObjLine} THEN <<>>
    ELSE <<handle_request(line, shape)>>

\* The body of main()'s loop for one line: the response lines written.
Respond(line, shape) ==
    IF line = BlankLine THEN <<>>
    ELSE IF line \in {GarbageLine, NonObjLine} THEN <<ErrorId0>>
    ELSE <<handle_request(line, shape)>>

\* main(): one request line read, one response line written and flushed.
\* With the worker run on its own, fnCall keeps the lines read so far.
WorkerHandle ==
    /\ walive
    /\ wstdin # <<>>
    /\ \E shape \in Shapes :
          wstdout' = wstdout \o Respond(Head(wstdin), shape)
    /\ wstdin' = Tail(wstdin)
    /\ fnCall' = IF fnCall.op = "main"
                 THEN [fnCall EXCEPT !.n = @ + 1, !.read = Append(@, Head(wstdin))]
                 ELSE fnCall
    /\ UNCHANGED <<fileVars, agentVars, walive, histVars, prodVars, now, lim, limCall,
                   spends, bo, boCall, boHist, permits, sched, schedCall, gate, held,
                   gateCall, llm, traceVars>>

\* The start of a response line, cut off before its end: no JSON.
PartialLine == [json |-> FALSE, id |-> 0, shape |-> ""]

\* The worker process dies.  What it had written stays readable; what it had
\* not read is gone.  Dying while it writes the response to a request leaves
\* the start of the line in the pipe.
WorkerCrash ==
    /\ walive
    /\ pc \in Running
    /\ walive' = FALSE
    /\ wstdin' = <<>>
    /\ \/ UNCHANGED wstdout
       \/ /\ wstdin # <<>>
          /\ wstdout' = Append(wstdout, PartialLine)
    /\ UNCHANGED <<fileVars, agentVars, histVars, prodVars, coreVars, traceVars>>

\* ------------------------------------------------- handlers after a call
\* _handle_ln_connect after its ln_getinfo call: payload is whatever _safe_get
\* finds, {} by default; only a payload that is no dict stops the handler.
PayloadIsDict(res) == res.shape # "nonobj"

HandlerNextCall ==
    /\ pc = "ret"
    /\ cur.kind = "ln_connect" /\ cur.step = 1
    /\ PayloadIsDict(cur.res)
    /\ cur' = [cur EXCEPT !.step = 2]
    /\ pc' = "send"
    /\ UNCHANGED <<fileVars, rn, msgs, idx, mcpId, workerVars, histVars, prodVars, coreVars, traceVars>>

\* The handler's last statement: self._write_report(req_id, ...), then the
\* for loop goes on.
HandlerReport ==
    /\ pc = "ret"
    /\ ~(cur.kind = "ln_connect" /\ cur.step = 1 /\ PayloadIsDict(cur.res))
    /\ outbox' = Append(outbox,
                   Report(cur.req_id,
                          IF cur.kind = "ln_connect" /\ cur.step = 1
                          THEN "could not resolve" ELSE "result"))
    /\ idx' = idx + 1
    /\ cur' = NoCur
    /\ pc' = "loop"
    /\ UNCHANGED <<inbox, offsetFile, counterFile, rn, msgs, mcpId, workerVars, histVars,
                   prodVars, coreVars, traceVars>>

\* ------------------------------------------- the agent process as a whole
\* Ctrl-C: except KeyboardInterrupt: break.  The process ends and its worker,
\* reading end of file, ends with it.
Interrupt ==
    /\ pc \in Running
    /\ downs < MaxDowns
    /\ downs' = downs + 1
    /\ Raise("KeyboardInterrupt")
    /\ mcpId' = 0
    /\ walive' = FALSE /\ wstdin' = <<>> /\ wstdout' = <<>>
    /\ crashInfo' = NoCrash
    /\ UNCHANGED <<fileVars, delivered, firstRead, cursorHigh, prodVars, coreVars, traceVars>>

\* The agent process is killed at any point; only the files survive.
Crash ==
    /\ pc \in Running
    /\ downs < MaxDowns
    /\ downs' = downs + 1
    /\ crashInfo' = IF pc = "tick" THEN NoCrash
                    ELSE [at |-> IF pc \in Handling THEN "handling" ELSE pc,
                          offset |-> rn.offset, batch |-> msgs,
                          rest |-> IF pc \in Handling THEN Drop(msgs, idx - 1) ELSE <<>>]
    /\ pc' = "down"
    /\ rn' = NoRn /\ msgs' = <<>> /\ idx' = 0 /\ cur' = NoCur /\ mcpId' = 0
    /\ walive' = FALSE /\ wstdin' = <<>> /\ wstdout' = <<>>
    /\ firstRead' = NotRead
    /\ crashed' = TRUE
    /\ UNCHANGED <<fileVars, delivered, stopCause, cursorHigh, prodVars, coreVars, callOut,
                   dispatched>>

\* The agent is started again: LightningAgent() builds a new FastMCPClient
\* with a new worker, then run().
Restart ==
    /\ pc \in {"down", "stopped"}
    /\ pc' = "tick"
    /\ mcpId' = 0
    /\ walive' = TRUE /\ wstdin' = <<>> /\ wstdout' = <<>>
    /\ stopCause' = "none"
    /\ UNCHANGED <<fileVars, rn, msgs, idx, cur, delivered, downs, crashInfo, firstRead,
                   cursorHigh, prodVars, coreVars, traceVars>>

\* ------------------------------------------------------- specification
Producers == 1..NumProducers
NoOutcome == [kind |-> "none", cause |-> ""]
TraceInit == callOut = NoOutcome /\ dispatched = <<>> /\ crashed = FALSE

ProdInit ==
    /\ ppc = [p \in Producers |-> "idle"]
    /\ pn = [p \in Producers |-> 0]
    /\ pensure = [p \in Producers |-> 0]
    /\ pdone = [p \in Producers |-> 0]
    /\ lockHolder = 0
    /\ pcrashes = 0

AgentInit ==
    /\ pc = "tick"
    /\ rn = NoRn /\ msgs = <<>> /\ idx = 0 /\ cur = NoCur /\ mcpId = 0
    /\ walive = TRUE /\ wstdin = <<>> /\ wstdout = <<>>
    /\ delivered = <<>> /\ downs = 0 /\ stopCause = "none"
    /\ crashInfo = NoCrash /\ firstRead = Untracked /\ cursorHigh = 0
    /\ TraceInit

\* LightningAgent.__init__ builds a FastMCPClient and an LLM backend and
\* nothing of ai/core: no limiter, no backoff, no gate, and no permit held.
NoLimiter == [made |-> FALSE]
NoBackoff == [made |-> FALSE]
NoCall == [op |-> "none", n |-> 0]
NoBoHist == [run |-> 0, fresh |-> 0, fails |-> 0, due |-> 0, dueStated |-> 0,
             opened |-> FALSE, openRun |-> 0, cbHigh |-> 0, twin |-> NoBackoff]
NoScheduler == [made |-> FALSE]
NoGate == [made |-> FALSE]
NoLlm == [made |-> FALSE]
AuxAbsent ==
    /\ sched = NoScheduler /\ schedCall = NoCall
    /\ gate = NoGate /\ held = <<>> /\ gateCall = NoCall
    /\ fnCall = NoCall
    /\ llm = NoLlm
CoreAbsent ==
    /\ now = 0
    /\ lim = NoLimiter /\ limCall = NoCall /\ spends = <<>>
    /\ bo = NoBackoff /\ boCall = NoCall /\ boHist = NoBoHist
    /\ permits = 0
    /\ AuxAbsent

\* The queue directory after a first ensure(), the agent constructed.
Init ==
    /\ inbox = <<>> /\ outbox = <<>>
    /\ offsetFile = File(Str(0)) /\ counterFile = File(Str(0))
    /\ AgentInit
    /\ ProdInit
    /\ CoreAbsent

Next ==
    \/ \E shape \in EntryShapes : Enqueue(shape)
    \/ \E ln \in ForeignLines : AppendForeign(ln)
    \/ ReadNewRead
    \/ ReadNewIOError
    \/ ReadNewTruncate
    \/ ReadNewWrite
    \/ LoopDone
    \/ DispatchUnknown
    \/ DispatchBadArgs
    \/ DispatchCall
    \/ CallSend
    \/ CallPoll
    \/ CallRead
    \/ WorkerHandle
    \/ WorkerCrash
    \/ HandlerNextCall
    \/ HandlerReport
    \/ Interrupt
    \/ Crash
    \/ Restart

Spec == Init /\ [][Next]_vars

\* ------------------------------------- producers, statement by statement
\* enqueue() in several processes at once, on a queue directory that does not
\* exist yet.  ensure() takes no lock; _next_id() holds flock on msg.counter
\* from its read to its write.

\* enqueue() is called: qp = ensure() begins.
PStart(p) ==
    /\ ppc[p] = "idle"
    /\ pdone[p] < MaxEnqueues
    /\ ppc' = [ppc EXCEPT ![p] = "ensure"]
    /\ pensure' = [pensure EXCEPT ![p] = 1]
    /\ UNCHANGED <<fileVars, agentVars, workerVars, histVars, pn, pdone, lockHolder,
                   pcrashes, coreVars, traceVars>>

\* Where a producer goes when an ensure() call returns: enqueue's own call is
\* followed by _next_id(), whose first statement is ensure() again.
AfterEnsure(p) ==
    /\ ppc' = [ppc EXCEPT ![p] = IF pensure[p] = 1 THEN "ensure" ELSE "lock"]
    /\ pensure' = [pensure EXCEPT ![p] = IF pensure[p] = 1 THEN 2 ELSE 0]

\* ensure(), lines 55-61: mkdir, touch, the offset file, then the test
\* "if not qp.counter.exists()".
PEnsureCheck(p) ==
    /\ ppc[p] = "ensure"
    /\ offsetFile' = EnsureFile(offsetFile)
    /\ IF counterFile.exists
       THEN AfterEnsure(p)
       ELSE /\ ppc' = [ppc EXCEPT ![p] = "ensure_open"]
            /\ UNCHANGED pensure
    /\ UNCHANGED <<inbox, outbox, counterFile, agentVars, workerVars, histVars, pn, pdone,
                   lockHolder, pcrashes, coreVars, traceVars>>

\* Line 62, first half: write_text opens msg.counter with mode "w": the file
\* is created, or truncated if it exists by now.
PEnsureOpen(p) ==
    /\ ppc[p] = "ensure_open"
    /\ counterFile' = File(<<>>)
    /\ ppc' = [ppc EXCEPT ![p] = "ensure_write"]
    /\ UNCHANGED <<inbox, outbox, offsetFile, agentVars, workerVars, histVars, pn, pensure,
                   pdone, lockHolder, pcrashes, coreVars, traceVars>>

\* Line 62, second half: "0" is written at the start of the file.
PEnsureWrite(p) ==
    /\ ppc[p] = "ensure_write"
    /\ counterFile' = File(Str(0))
    /\ AfterEnsure(p)
    /\ UNCHANGED <<inbox, outbox, offsetFile, agentVars, workerVars, histVars, pn, pdone,
                   lockHolder, pcrashes, coreVars, traceVars>>

\* _next_id(), lines 68-69: open "r+", flock(LOCK_EX) blocks while another
\* process holds the lock.
PLock(p) ==
    /\ ppc[p] = "lock"
    /\ lockHolder = 0
    /\ lockHolder' = p
    /\ ppc' = [ppc EXCEPT ![p] = "read"]
    /\ UNCHANGED <<fileVars, agentVars, workerVars, histVars, pn, pensure, pdone, pcrashes,
                   coreVars, traceVars>>

\* Lines 70-75: raw = f.read().strip() or "0"; n = int(raw) + 1.
PRead(p) ==
    /\ ppc[p] = "read"
    /\ pn' = [pn EXCEPT ![p] = NextIdValue(counterFile.text)]
    /\ ppc' = [ppc EXCEPT ![p] = "truncate"]
    /\ UNCHANGED <<fileVars, agentVars, workerVars, histVars, pensure, pdone, lockHolder,
                   pcrashes, coreVars, traceVars>>

\* Lines 76-77: f.seek(0); f.truncate().
PTruncate(p) ==
    /\ ppc[p] = "truncate"
    /\ counterFile' = File(<<>>)
    /\ ppc' = [ppc EXCEPT ![p] = "write"]
    /\ UNCHANGED <<inbox, outbox, offsetFile, agentVars, workerVars, histVars, pn, pensure,
                   pdone, lockHolder, pcrashes, coreVars, traceVars>>

\* Lines 78-80: f.write(str(n)); f.flush(); os.fsync().
PWrite(p) ==
    /\ ppc[p] = "write"
    /\ counterFile' = File(Str(pn[p]))
    /\ ppc' = [ppc EXCEPT ![p] = "unlock"]
    /\ UNCHANGED <<inbox, outbox, offsetFile, agentVars, workerVars, histVars, pn, pensure,
                   pdone, lockHolder, pcrashes, coreVars, traceVars>>

\* Lines 81-82: _unlock(f); return n.
PUnlock(p) ==
    /\ ppc[p] = "unlock"
    /\ lockHolder' = 0
    /\ ppc' = [ppc EXCEPT ![p] = "append"]
    /\ UNCHANGED <<fileVars, agentVars, workerVars, histVars, pn, pensure, pdone, pcrashes,
                   coreVars, traceVars>>

\* enqueue(), lines 87-103: the line is appended to the inbox under its lock.
PAppend(p) ==
    /\ ppc[p] = "append"
    /\ \A q \in Producers : ppc[q] # "append_rest"
    /\ inbox' = inbox \o Dumps(Msg(pn[p], "ping", "ok")) \o <<NL>>
    /\ ppc' = [ppc EXCEPT ![p] = "idle"]
    /\ pdone' = [pdone EXCEPT ![p] = pdone[p] + 1]
    /\ pn' = [pn EXCEPT ![p] = 0]
    /\ UNCHANGED <<outbox, offsetFile, counterFile, agentVars, workerVars, histVars,
                   pensure, lockHolder, pcrashes, coreVars, traceVars>>

\* A producer process is killed inside enqueue(); the kernel drops its flock.
\* The next enqueue() of that producer runs in a new process.
PCrash(p) ==
    /\ ppc[p] # "idle"
    /\ pcrashes < MaxProducerCrashes
    /\ pcrashes' = pcrashes + 1
    /\ ppc' = [ppc EXCEPT ![p] = "idle"]
    /\ pn' = [pn EXCEPT ![p] = 0]
    /\ pensure' = [pensure EXCEPT ![p] = 0]
    /\ lockHolder' = IF lockHolder = p THEN 0 ELSE lockHolder
    /\ UNCHANGED <<fileVars, agentVars, workerVars, histVars, pdone, coreVars, traceVars>>

\* No queue directory yet, no agent running.
InitEnqueue ==
    /\ inbox = <<>> /\ outbox = <<>>
    /\ offsetFile = NoFile /\ counterFile = NoFile
    /\ pc = "down"
    /\ rn = NoRn /\ msgs = <<>> /\ idx = 0 /\ cur = NoCur /\ mcpId = 0
    /\ walive = FALSE /\ wstdin = <<>> /\ wstdout = <<>>
    /\ delivered = <<>> /\ downs = 0 /\ stopCause = "none"
    /\ crashInfo = NoCrash /\ firstRead = Untracked /\ cursorHigh = 0
    /\ TraceInit
    /\ ProdInit
    /\ CoreAbsent

NextEnqueue ==
    \E p \in Producers :
        \/ PStart(p)
        \/ PEnsureCheck(p)
        \/ PEnsureOpen(p)
        \/ PEnsureWrite(p)
        \/ PLock(p)
        \/ PRead(p)
        \/ PTruncate(p)
        \/ PWrite(p)
        \/ PUnlock(p)
        \/ PAppend(p)
        \/ PCrash(p)

SpecEnqueue == InitEnqueue /\ [][NextEnqueue]_vars

\* ------------------------------------------- ai/core/rate_limiter.py
\* Time is counted in units of a quarter of a minute.  Token amounts are kept
\* as integers: an amount of x tokens is x * UnitsPerMinute, so that a refill
\* of rpm / 60.0 tokens per second is rpm per time unit.
UnitsPerMinute == 4
MaxTime == 3
MaxLimiterCalls == 7

Max(a, b) == IF a >= b THEN a ELSE b
Min(a, b) == IF a <= b THEN a ELSE b
Tokens(x) == x * UnitsPerMinute

\* _Bucket(capacity, refill_per_s, tokens, last_t)
Bucket(capacity, refill_per_unit, tokens, last_t) ==
    [capacity |-> capacity, refill_per_s |-> refill_per_unit, tokens |-> tokens,
     last_t |-> last_t]

\* A bucket that never refills.
refill_none(b, t) == [b EXCEPT !.last_t = t]

\* A refill that does not stop at the capacity.
refill_uncapped(b, t) ==
    [b EXCEPT !.tokens = b.tokens + Max(0, t - b.last_t) * b.refill_per_s, !.last_t = t]

\* _Bucket.refill(now)
refill(b, t) ==
    LET dt == Max(0, t - b.last_t)
    IN [b EXCEPT !.tokens = Min(b.capacity, b.tokens + dt * b.refill_per_s),
                 !.last_t = t]

\* Strict sufficiency turned into strict inequality.
EnoughStrict(tokens, amount) == tokens > amount

\* The test of _Bucket.can_spend: self.tokens >= amount.
Enough(tokens, amount) == tokens >= amount

\* _Bucket.can_spend(amount, now): the refilled bucket and the answer.
can_spend(b, amount, t) ==
    LET r == refill(b, t) IN [ok |-> Enough(r.tokens, amount), b |-> r]

\* _Bucket.spend(amount, now): ok is FALSE when it raises RuntimeError, after
\* the refill.
bucket_spend(b, amount, t) ==
    LET r == refill(b, t)
    IN IF r.tokens < amount THEN [ok |-> FALSE, b |-> r]
       ELSE [ok |-> TRUE, b |-> [r EXCEPT !.tokens = @ - amount]]

\* DualRateLimiter.__init__(rpm, tpm, min_interval_ms) at time t; min_interval
\* is given in time units.
NewLimiter(rpm, tpm, min_interval, t) ==
    LET r == Max(1, rpm)
        k == Max(1, tpm)
    IN [made |-> TRUE,
        req |-> Bucket(Tokens(r), r, Tokens(r), t),
        tok |-> Bucket(Tokens(k), k, Tokens(k), t),
        min_interval |-> Max(0, min_interval),
        next |-> t]

\* float(max(1, estimated_total_tokens))
Cost(est) == Tokens(Max(1, est))

\* DualRateLimiter.allowed(estimated_total_tokens) at time t: the answer and the
\* limiter with the buckets the call has refilled.
allowed(l, est, t) ==
    IF t < l.next THEN [res |-> FALSE, lim |-> l]
    ELSE LET rq == can_spend(l.req, Tokens(1), t)
         IN IF ~rq.ok THEN [res |-> FALSE, lim |-> [l EXCEPT !.req = rq.b]]
            ELSE LET tk == can_spend(l.tok, Cost(est), t)
                 IN [res |-> tk.ok, lim |-> [l EXCEPT !.req = rq.b, !.tok = tk.b]]

\* Spending leaves the next allowed time at the time of the call.
NextAllowedNow(next, t, min_interval) == t

\* spend, line 76: max(self._next_allowed_time, now + self._min_interval_s)
NextAllowed(next, t, min_interval) == Max(next, t + min_interval)

\* DualRateLimiter.spend(estimated_total_tokens) at time t.  ok is FALSE when a
\* bucket raises; the request bucket is debited before the cost bucket is tried.
spend(l, est, t) ==
    LET rq == bucket_spend(l.req, Tokens(1), t)
    IN IF ~rq.ok THEN [ok |-> FALSE, lim |-> [l EXCEPT !.req = rq.b]]
       ELSE LET tk == bucket_spend(l.tok, Cost(est), t)
            IN IF ~tk.ok
               THEN [ok |-> FALSE, lim |-> [l EXCEPT !.req = rq.b, !.tok = tk.b]]
               ELSE [ok |-> TRUE,
                     lim |-> [l EXCEPT !.req = rq.b, !.tok = tk.b,
                                       !.next = NextAllowed(l.next, t, l.min_interval)]]

\* The difference is debited whether the bucket holds it or not.
reconcile_actual_unchecked(l, actual, est, t) ==
    LET diff == actual - est
    IN IF diff <= 0 THEN l
       ELSE LET r == refill(l.tok, t)
            IN [l EXCEPT !.tok = [r EXCEPT !.tokens = @ - Tokens(diff)]]

\* DualRateLimiter.reconcile_actual(actual_total_tokens, estimated_total_tokens)
reconcile_actual(l, actual, est, t) ==
    LET diff == actual - est
    IN IF diff <= 0 THEN l
       ELSE LET c == can_spend(l.tok, Tokens(diff), t)
            IN IF c.ok THEN [l EXCEPT !.tok = bucket_spend(c.b, Tokens(diff), t).b]
               ELSE [l EXCEPT !.tok = c.b]

\* The limiters built: [rpm, tpm, min_interval].
LimiterConfigs == {<<2, 100, 0>>, <<2, 2, 0>>, <<2, 2, 1>>, <<0, 3, 0>>}
Ests == {0, 1}
\* [actual, estimated] of reconcile_actual: no more than estimated, one more.
Actuals == {<<1, 1>>, <<2, 1>>}

\* The clock advances.
Tick ==
    /\ now < MaxTime
    /\ now' = now + 1
    /\ UNCHANGED <<fileVars, agentVars, workerVars, histVars, prodVars, lim, limCall,
                   spends, bo, boCall, boHist, permits, auxVars, traceVars>>

LimAllowed(est) ==
    /\ limCall.n < MaxLimiterCalls
    /\ LET a == allowed(lim, est, now)
       IN /\ lim' = a.lim
          /\ limCall' = [op |-> "allowed", est |-> est, actual |-> 0, res |-> a.res,
                         t |-> now, pre |-> lim, nspent |-> Len(spends),
                         n |-> limCall.n + 1]
    /\ UNCHANGED <<fileVars, agentVars, workerVars, histVars, prodVars, now, spends, bo,
                   boCall, boHist, permits, auxVars, traceVars>>

\* spend() is called right after an allowed() with the same estimate that
\* returned true.
Gated(est) == limCall.op = "allowed" /\ limCall.res /\ limCall.est = est

LimSpend(est) ==
    /\ limCall.n < MaxLimiterCalls
    /\ LET r == spend(lim, est, now)
       IN /\ lim' = r.lim
          /\ limCall' = [op |-> "spend", est |-> est, actual |-> 0, res |-> r.ok,
                         t |-> now, pre |-> lim, nspent |-> Len(spends),
                         n |-> limCall.n + 1]
          /\ spends' = Append(spends, [t |-> now, cost |-> Max(1, est),
                                       gated |-> Gated(est), ok |-> r.ok])
    /\ UNCHANGED <<fileVars, agentVars, workerVars, histVars, prodVars, now, bo, boCall,
                   boHist, permits, auxVars, traceVars>>

LimReconcile(actual, est) ==
    /\ limCall.n < MaxLimiterCalls
    /\ lim' = reconcile_actual(lim, actual, est, now)
    /\ limCall' = [op |-> "reconcile", est |-> est, actual |-> actual, res |-> TRUE,
                   t |-> now, pre |-> lim, nspent |-> Len(spends), n |-> limCall.n + 1]
    /\ UNCHANGED <<fileVars, agentVars, workerVars, histVars, prodVars, now, spends, bo,
                   boCall, boHist, permits, auxVars, traceVars>>

\* No agent running; a limiter just built.
AgentAbsent ==
    /\ inbox = <<>> /\ outbox = <<>>
    /\ offsetFile = NoFile /\ counterFile = NoFile
    /\ pc = "down"
    /\ rn = NoRn /\ msgs = <<>> /\ idx = 0 /\ cur = NoCur /\ mcpId = 0
    /\ walive = FALSE /\ wstdin = <<>> /\ wstdout = <<>>
    /\ delivered = <<>> /\ downs = 0 /\ stopCause = "none"
    /\ crashInfo = NoCrash /\ firstRead = Untracked /\ cursorHigh = 0
    /\ TraceInit
    /\ ProdInit

InitLimiter ==
    /\ AgentAbsent
    /\ now = 0
    /\ \E cfg \in LimiterConfigs : lim = NewLimiter(cfg[1], cfg[2], cfg[3], 0)
    /\ limCall = NoCall /\ spends = <<>>
    /\ bo = NoBackoff /\ boCall = NoCall /\ boHist = NoBoHist
    /\ permits = 0
    /\ AuxAbsent

NextLimiter ==
    \/ Tick
    \/ \E est \in Ests : LimAllowed(est)
    \/ \E est \in Ests : LimSpend(est)
    \/ \E ae \in Actuals : LimReconcile(ae[1], ae[2])

SpecLimiter == InitLimiter /\ [][NextLimiter]_vars

\* ---------------------------------------------- ai/core/backoff.py
\* In this part the clock counts milliseconds; blocked_until and
\* circuit_open_until, seconds in the code, are kept in milliseconds.
MaxBackoffCalls == 6

RECURSIVE Pow2(_)
Pow2(n) == IF n <= 0 THEN 1 ELSE 2 * Pow2(n - 1)

\* DeterministicBackoff.__init__ with a new BackoffState.
NewBackoff(base_ms, max_ms, jitter_ms, circuit_breaker_after, circuit_breaker_open_ms) ==
    [made |-> TRUE,
     base_ms |-> Max(1, base_ms), max_ms |-> Max(1, max_ms),
     jitter_ms |-> Max(0, jitter_ms),
     cb_after |-> Max(1, circuit_breaker_after),
     cb_open |-> Max(1, circuit_breaker_open_ms),
     attempt |-> 0, blocked_until |-> 0, circuit_open_until |-> 0,
     consecutive_failures |-> 0,
     hashseed |-> 0]

\* DeterministicBackoff.blocked() at time t.
blocked(b, t) == t < Max(b.blocked_until, b.circuit_open_until)

\* A success that leaves the failure count as it is.
note_success_keep(b) == [b EXCEPT !.attempt = 0, !.blocked_until = 0]

\* A success that closes the circuit.
note_success_close(b) ==
    [b EXCEPT !.attempt = 0, !.consecutive_failures = 0, !.blocked_until = 0,
              !.circuit_open_until = 0]

\* DeterministicBackoff.note_success()
note_success(b) ==
    [b EXCEPT !.attempt = 0, !.consecutive_failures = 0, !.blocked_until = 0]

\* The hash seeds of the interpreters that hold a backoff (PYTHONHASHSEED, or
\* the random seed drawn at start-up).
HashSeeds == {0, 1}

\* A hash that is salted with the interpreter's seed, as the hash of a str is.
HashSalted(seed, step_id) == step_id + seed

\* hash(step_id) of a small non-negative int is the int itself, whatever the
\* interpreter's hash seed.
Hash(seed, step_id) == step_id

\* Line 54: the deterministic jitter of a step id.
Jitter(b, step_id) ==
    IF b.jitter_ms > 0 THEN Hash(b.hashseed, step_id) % (b.jitter_ms + 1) ELSE 0

\* Lines 53-58: the delay, in milliseconds, of a failure at attempt number
\* attempt, with the Retry-After hint if there is one.
NoHint == [some |-> FALSE, ms |-> 0]
Hint(ms) == [some |-> TRUE, ms |-> ms]
Delay(b, attempt, step_id, hint) ==
    LET exp == Min(b.max_ms, b.base_ms * Pow2(attempt - 1))
        d == exp + Jitter(b, step_id)
    IN IF hint.some THEN Max(d, hint.ms) ELSE d

\* blocked_until is set to now + delay, whatever it was.
ExtendToNow(prev, t, delay) == t + delay

\* Line 60: max(self.state.blocked_until, now + delay_s)
ExtendTo(prev, t, delay) == Max(prev, t + delay)

\* The circuit trips one failure late.
TripsLate(failures, after) == failures > after

\* Line 63: self.state.consecutive_failures >= self._cb_after
Trips(failures, after) == failures >= after

\* DeterministicBackoff.note_failure(step_id, retry_after_s) at time t.
note_failure(b, step_id, hint, t) ==
    LET attempt == b.attempt + 1
        failures == b.consecutive_failures + 1
        until == ExtendTo(b.blocked_until, t, Delay(b, attempt, step_id, hint))
    IN IF Trips(failures, b.cb_after)
       THEN [b EXCEPT !.blocked_until = until,
                      !.circuit_open_until = Max(@, t + b.cb_open),
                      !.attempt = 0, !.consecutive_failures = 0]
       ELSE [b EXCEPT !.blocked_until = until, !.attempt = attempt,
                      !.consecutive_failures = failures]

\* The backoffs built: [base_ms, max_ms, jitter_ms, circuit_breaker_after,
\* circuit_breaker_open_ms].
BackoffConfigs == {<<1, 2, 1, 3, 5>>, <<1, 4, 0, 2, 2>>}
StepIds == {0, 1}
Hints == {NoHint, Hint(0), Hint(6)}

BoFailure(step_id, hint) ==
    /\ boCall.n < MaxBackoffCalls
    /\ LET b == note_failure(bo, step_id, hint, now)
           run == boHist.run + 1
           fresh == boHist.fresh + 1
           opens == b.circuit_open_until # bo.circuit_open_until
       IN /\ bo' = b
          /\ boHist' = [run |-> run,
                        fresh |-> IF fresh >= bo.cb_after THEN 0 ELSE fresh,
                        fails |-> boHist.fails + 1,
                        due |-> IF fresh >= bo.cb_after
                                THEN Max(boHist.due, now + bo.cb_open) ELSE boHist.due,
                        dueStated |-> IF run >= bo.cb_after
                                      THEN Max(boHist.dueStated, now + bo.cb_open)
                                      ELSE boHist.dueStated,
                        opened |-> boHist.opened \/ opens,
                        openRun |-> IF opens THEN run ELSE boHist.openRun,
                        cbHigh |-> Max(boHist.cbHigh, b.circuit_open_until),
                        twin |-> note_failure(boHist.twin, step_id, hint, now)]
    /\ boCall' = [op |-> "failure", n |-> boCall.n + 1, t |-> now, pre |-> bo,
                  step_id |-> step_id, hint |-> hint]
    /\ UNCHANGED <<fileVars, agentVars, workerVars, histVars, prodVars, now, lim, limCall,
                   spends, permits, auxVars, traceVars>>

BoSuccess ==
    /\ boCall.n < MaxBackoffCalls
    /\ LET b == note_success(bo)
       IN /\ bo' = b
          /\ boHist' = [boHist EXCEPT !.run = 0, !.fresh = 0,
                                      !.cbHigh = Max(@, b.circuit_open_until),
                                      !.twin = note_success(@)]
    /\ boCall' = [op |-> "success", n |-> boCall.n + 1, t |-> now, pre |-> bo,
                  step_id |-> 0, hint |-> NoHint]
    /\ UNCHANGED <<fileVars, agentVars, workerVars, histVars, prodVars, now, lim, limCall,
                   spends, permits, auxVars, traceVars>>

\* A second instance built with the same parameters, in an interpreter with
\* another hash seed; it is fed every call the first one gets, at the same time.
Twin(b) == [b EXCEPT !.hashseed = CHOOSE s \in HashSeeds : s # b.hashseed]

\* No agent running; a backoff just built.
InitBackoff ==
    /\ AgentAbsent
    /\ now = 0
    /\ lim = NoLimiter /\ limCall = NoCall /\ spends = <<>>
    /\ \E cfg \in BackoffConfigs : bo = NewBackoff(cfg[1], cfg[2], cfg[3], cfg[4], cfg[5])
    /\ boCall = NoCall /\ boHist = [NoBoHist EXCEPT !.twin = Twin(bo)]
    /\ permits = 0
    /\ AuxAbsent

NextBackoff ==
    \/ Tick
    \/ \E step_id \in StepIds, hint \in Hints : BoFailure(step_id, hint)
    \/ BoSuccess

SpecBackoff == InitBackoff /\ [][NextBackoff]_vars

\* ====================================================================
\* DeterministicScheduler (ai/core/scheduler.py); the clock is in milliseconds
\* ====================================================================

MaxSchedCalls == 4
MaxSchedTime == 8
MaxWork == 3
MaxOversleep == 1

\* DeterministicScheduler.__init__(tick_ms) at time t, tick_ms > 0.
NewScheduler(tick_ms, t) == [made |-> TRUE, cadence |-> tick_ms, t0 |-> t, k |-> 0]

\* The target of the tick after the coming one.
next_tick_time_late(s) == s.t0 + ((s.k + 1) * s.cadence)

\* DeterministicScheduler.next_tick_time()
next_tick_time(s) == s.t0 + (s.k * s.cadence)

\* Lines 23-25: the duration handed to time.sleep, 0 for no sleep.
sleep_s(s, t) == Max(0, next_tick_time(s) - t)

TickMs == {1, 2, 3}
StartTimes == {0, 1}

\* The caller's iteration takes d milliseconds.
Work(d) ==
    /\ sched.made
    /\ now + d <= MaxSchedTime
    /\ now' = now + d
    /\ UNCHANGED <<fileVars, agentVars, workerVars, histVars, prodVars, lim, limCall,
                   spends, bo, boCall, boHist, permits, sched, schedCall, gate, held,
                   gateCall, fnCall, llm, traceVars>>

\* wait_next_tick(): time.sleep(sleep_s) returns after sleep_s or a little
\* later; no sleep when the target has passed.
WaitNextTick(over) ==
    /\ sched.made
    /\ schedCall.n < MaxSchedCalls
    /\ LET d == sleep_s(sched, now)
           ret == IF d > 0 THEN now + d + over ELSE now
       IN /\ d = 0 => over = 0
          /\ now' = ret
          /\ schedCall' = [op |-> "wait", n |-> schedCall.n + 1, arrive |-> now,
                           target |-> next_tick_time(sched), slept |-> d, ret |-> ret]
    /\ sched' = [sched EXCEPT !.k = @ + 1]
    /\ UNCHANGED <<fileVars, agentVars, workerVars, histVars, prodVars, lim, limCall,
                   spends, bo, boCall, boHist, permits, gate, held, gateCall, fnCall, llm, traceVars>>

\* No agent running; a scheduler just built.
InitScheduler ==
    /\ AgentAbsent
    /\ now \in StartTimes
    /\ lim = NoLimiter /\ limCall = NoCall /\ spends = <<>>
    /\ bo = NoBackoff /\ boCall = NoCall /\ boHist = NoBoHist
    /\ permits = 0
    /\ \E tick_ms \in TickMs : sched = NewScheduler(tick_ms, now)
    /\ schedCall = NoCall
    /\ gate = NoGate /\ held = <<>> /\ gateCall = NoCall
    /\ fnCall = NoCall
    /\ llm = NoLlm

NextScheduler ==
    \/ \E d \in 1..MaxWork : Work(d)
    \/ \E over \in 0..MaxOversleep : WaitNextTick(over)

SpecScheduler == InitScheduler /\ [][NextScheduler]_vars

\* ====================================================================
\* ConcurrencyGate (ai/core/concurrency.py)
\* ====================================================================

NumThreads == 3
MaxGateCalls == 6

Threads == 1..NumThreads

\* ConcurrencyGate.__init__: a threading.Semaphore with max(1, max_in_flight)
\* permits. size and stray are history: the number of permits the gate was
\* built with, and whether release() was called with no acquire to match.
NewGate(max_in_flight) ==
    [made |-> TRUE, value |-> Max(1, max_in_flight), size |-> Max(1, max_in_flight),
     stray |-> FALSE]

\* The default of acquire's parameter blocking.
DefaultBlocking == FALSE

\* A semaphore that hands out a permit it does not have.
HasPermitAlways(value) == TRUE

\* Semaphore.acquire: a permit is free.
HasPermit(value) == value > 0

\* ConcurrencyGate.acquire(blocking): the result, whether the caller is left
\* waiting for a permit, and the gate after the call.
acquire(g, blocking) ==
    IF HasPermit(g.value)
    THEN [res |-> TRUE, waits |-> FALSE, gate |-> [g EXCEPT !.value = @ - 1]]
    ELSE [res |-> FALSE, waits |-> blocking, gate |-> g]

\* ConcurrencyGate.release()
release(g) == [g EXCEPT !.value = @ + 1]

GateSizes == {0, 1, 2}

RECURSIVE SumHeld(_, _)
SumHeld(h, n) == IF n = 0 THEN 0 ELSE h[n] + SumHeld(h, n - 1)
\* The permits held at the same time, over all threads.
InFlight == SumHeld(held, NumThreads)

\* Thread th calls acquire().
GateAcquire(th) ==
    /\ gate.made
    /\ gateCall.n < MaxGateCalls
    /\ LET r == acquire(gate, DefaultBlocking)
       IN /\ ~r.waits
          /\ gate' = r.gate
          /\ held' = IF r.res THEN [held EXCEPT ![th] = @ + 1] ELSE held
          /\ gateCall' = [op |-> "acquire", n |-> gateCall.n + 1, th |-> th,
                          res |-> r.res, waits |-> r.waits, pre |-> gate]
    /\ UNCHANGED <<fileVars, agentVars, workerVars, histVars, prodVars, now, lim, limCall,
                   spends, bo, boCall, boHist, permits, sched, schedCall, fnCall, llm, traceVars>>

\* Thread th releases a permit it holds.
GateRelease(th) ==
    /\ gate.made
    /\ gateCall.n < MaxGateCalls
    /\ held[th] > 0
    /\ gate' = release(gate)
    /\ held' = [held EXCEPT ![th] = @ - 1]
    /\ gateCall' = [op |-> "release", n |-> gateCall.n + 1, th |-> th,
                    res |-> TRUE, waits |-> FALSE, pre |-> gate]
    /\ UNCHANGED <<fileVars, agentVars, workerVars, histVars, prodVars, now, lim, limCall,
                   spends, bo, boCall, boHist, permits, sched, schedCall, fnCall, llm, traceVars>>

\* Thread th calls release() while it holds no permit.
GateStrayRelease(th) ==
    /\ gate.made
    /\ gateCall.n < MaxGateCalls
    /\ held[th] = 0
    /\ gate' = [release(gate) EXCEPT !.stray = TRUE]
    /\ gateCall' = [op |-> "release", n |-> gateCall.n + 1, th |-> th,
                    res |-> TRUE, waits |-> FALSE, pre |-> gate]
    /\ UNCHANGED <<fileVars, agentVars, workerVars, histVars, prodVars, now, lim, limCall,
                   spends, bo, boCall, boHist, permits, sched, schedCall, held, fnCall, llm, traceVars>>

\* No agent running; a gate just built, no thread holds a permit.
InitGate ==
    /\ AgentAbsent
    /\ now = 0
    /\ lim = NoLimiter /\ limCall = NoCall /\ spends = <<>>
    /\ bo = NoBackoff /\ boCall = NoCall /\ boHist = NoBoHist
    /\ permits = 0
    /\ sched = NoScheduler /\ schedCall = NoCall
    /\ \E max_in_flight \in GateSizes : gate = NewGate(max_in_flight)
    /\ held = [th \in Threads |-> 0]
    /\ gateCall = NoCall
    /\ fnCall = NoCall
    /\ llm = NoLlm

NextGate ==
    \E th \in Threads : GateAcquire(th) \/ GateRelease(th) \/ GateStrayRelease(th)

SpecGate == InitGate /\ [][NextGate]_vars

\* ====================================================================
\* _is_tool_error (ai/agent.py); strings are sequences of characters
\* ====================================================================

\* JSON values as json.loads gives them.
Absent == [t |-> "absent"]
JNull == [t |-> "null"]
JStr(s) == [t |-> "str", s |-> s]
JNum(n) == [t |-> "num", n |-> n]
JBool(b) == [t |-> "bool", b |-> b]
\* A non-empty object that is an error value, such as {"code": 1}.
JObj == [t |-> "obj"]
JDict(error, ok, result) == [t |-> "dict", error |-> error, ok |-> ok, result |-> result]

\* An Optional[str].
None == [none |-> TRUE]
Some(s) == [none |-> FALSE, s |-> s]

SP == " "
RECURSIVE LStrip(_)
LStrip(s) == IF s # <<>> /\ Head(s) = SP THEN LStrip(Tail(s)) ELSE s
RECURSIVE RStrip(_)
RStrip(s) == IF s # <<>> /\ s[Len(s)] = SP THEN RStrip(SubSeq(s, 1, Len(s) - 1)) ELSE s
\* str.strip()
Strip(s) == RStrip(LStrip(s))

\* isinstance(v, str)
IsStr(v) == v.t = "str"
\* isinstance(v, dict)
IsDict(v) == v.t = "dict"
\* "error" in d
HasKey(v) == v # Absent
\* bool(v): the truth value of what d.get("error") returned.
Truthy(v) ==
    CASE v.t = "str" -> v.s # <<>>
      [] v.t = "num" -> v.n # 0
      [] v.t = "bool" -> v.b
      [] v.t = "obj" -> TRUE
      [] OTHER -> FALSE
\* str(v)
StrOf(v) ==
    CASE v.t = "str" -> v.s
      [] v.t = "num" -> IF v.n = 0 THEN <<"0">> ELSE <<"5">>
      [] v.t = "bool" -> IF v.b THEN <<"T">> ELSE <<"F">>
      [] v.t = "obj" -> <<"{", "}">>
      [] OTHER -> <<"N">>
\* "Tool returned ok=false"
DefaultMsg == <<"o", "k", "=", "f">>

\* d.get("ok") is False
OkIsFalse(d) == d.ok = JBool(FALSE)

\* Lines 175, 184: "error" in d and isinstance(d["error"], str) and
\* d["error"].strip()
ErrorText(v) == HasKey(v) /\ IsStr(v) /\ Strip(v.s) # <<>>

\* Lines 175-180 (184-188 for the nested result): the error of one level,
\* None when the level shows none.
LevelError(d) ==
    IF ErrorText(d.error) THEN Some(Strip(StrOf(d.error)))
    ELSE IF OkIsFalse(d)
         THEN Some(IF Truthy(d.error) THEN StrOf(d.error) ELSE DefaultMsg)
         ELSE None

\* _is_tool_error(result)
is_tool_error(result) ==
    IF ~IsDict(result) THEN None
    ELSE IF ~LevelError(result).none THEN LevelError(result)
    ELSE IF IsDict(result.result) THEN LevelError(result.result)
    ELSE None

ErrVals ==
    {Absent, JNull, JStr(<<>>), JStr(<<SP>>), JStr(<<"b">>), JStr(<<SP, "b", SP>>),
     JNum(0), JNum(5), JObj}
OkVals == {Absent, JBool(TRUE), JBool(FALSE)}
\* The nested result: none, no object, or an object with its own error and ok.
ResultVals ==
    {Absent, JNum(5)} \cup {JDict(e, o, Absent) : e \in ErrVals, o \in OkVals}
ToolResults ==
    {JStr(<<"b">>)} \cup {JDict(e, o, r) : e \in ErrVals, o \in OkVals, r \in ResultVals}

\* err = _is_tool_error(result)
IsToolError ==
    /\ fnCall.op = "arg"
    /\ fnCall' = [fnCall EXCEPT !.op = "_is_tool_error", !.n = 1,
                                !.out = is_tool_error(fnCall.arg)]
    /\ UNCHANGED <<fileVars, agentVars, workerVars, histVars, prodVars, now, lim, limCall,
                   spends, bo, boCall, boHist, permits, sched, schedCall, gate, held,
                   gateCall, llm, traceVars>>

\* No agent running; a tool result in hand.
InitToolError ==
    /\ AgentAbsent
    /\ now = 0
    /\ lim = NoLimiter /\ limCall = NoCall /\ spends = <<>>
    /\ bo = NoBackoff /\ boCall = NoCall /\ boHist = NoBoHist
    /\ permits = 0
    /\ sched = NoScheduler /\ schedCall = NoCall
    /\ gate = NoGate /\ held = <<>> /\ gateCall = NoCall
    /\ \E result \in ToolResults : fnCall = [op |-> "arg", n |-> 0, arg |-> result, out |-> None]
    /\ llm = NoLlm

NextToolError == IsToolError

SpecToolError == InitToolError /\ [][NextToolError]_vars

\* ====================================================================
\* The worker run on its own (mcp/ln_mcp_server.py main)
\* ====================================================================

MaxRequests == 3

\* The lines a client may write to the worker.
StdinLines ==
    {BlankLine, GarbageLine, NonObjLine,
     Request(1, "ln_getinfo"), Request(2, "nope"),
     [method |-> "ln_getinfo"], [id |-> 3]}

RECURSIVE SeqsUpTo(_, _)
SeqsUpTo(S, n) ==
    IF n = 0 THEN {<<>>}
    ELSE SeqsUpTo(S, n - 1) \cup
         {Append(q, x) : q \in {r \in SeqsUpTo(S, n - 1) : Len(r) = n - 1}, x \in S}

\* No agent; a worker started, its input written by some client.
InitWorker ==
    /\ inbox = <<>> /\ outbox = <<>>
    /\ offsetFile = NoFile /\ counterFile = NoFile
    /\ pc = "down"
    /\ rn = NoRn /\ msgs = <<>> /\ idx = 0 /\ cur = NoCur /\ mcpId = 0
    /\ walive = TRUE /\ wstdout = <<>>
    /\ wstdin \in SeqsUpTo(StdinLines, MaxRequests)
    /\ delivered = <<>> /\ downs = 0 /\ stopCause = "none"
    /\ crashInfo = NoCrash /\ firstRead = Untracked /\ cursorHigh = 0
    /\ TraceInit
    /\ ProdInit
    /\ now = 0
    /\ lim = NoLimiter /\ limCall = NoCall /\ spends = <<>>
    /\ bo = NoBackoff /\ boCall = NoCall /\ boHist = NoBoHist
    /\ permits = 0
    /\ sched = NoScheduler /\ schedCall = NoCall
    /\ gate = NoGate /\ held = <<>> /\ gateCall = NoCall
    /\ fnCall = [op |-> "main", n |-> 0, read |-> <<>>]
    /\ llm = NoLlm

NextWorker == WorkerHandle

SpecWorker == InitWorker /\ [][NextWorker]_vars

\* ====================================================================
\* The freeform LLM handler (ai/agent.py, LightningAgent.run and
\* _handle_freeform_llm).  Time is counted in tenths of a second.
\* ====================================================================

MaxLlmTime == 24
MaxLlmEntries == 2

\* self.max_steps_per_command = 12
max_steps_per_command == 12
\* self.min_llm_interval_s = 1.0
min_llm_interval == 10
\* time.sleep(0.1)
PollSleep == 1

\* __init__: the gating fields, and the locals of the handler at rest.
NewAgentLlm(allow, t) ==
    [made |-> TRUE, allow_llm |-> allow, next_llm_time |-> t, pc |-> "idle",
     kind |-> "", use_llm |-> Absent, steps |-> 0, calls |-> 0, waits |-> 0,
     report |-> "", entries |-> 0]

\* _llm_allowed
llm_allowed(a, t) == t >= a.next_llm_time

\* _reserve_llm
reserve_llm(a, t) == [a EXCEPT !.next_llm_time = Max(@, t + min_llm_interval)]

\* The kinds run() dispatches to a typed handler, and two it does not know.
TypedKinds == {"health_check", "ln_getinfo", "ln_openchannel", "ln_pay"}
LlmKinds == TypedKinds \cup {"freeform", "ping"}
\* meta.get("use_llm", False) of an entry: missing, false, true, 0, 1, "", "no".
UseLlmVals == {Absent, JBool(FALSE), JBool(TRUE), JNum(0), JNum(1), JStr(<<>>),
               JStr(<<"n", "o">>)}

UsesLlmAnyFreeform(kind, use_llm) == kind = "freeform"

\* kind == "freeform" and bool(meta.get("use_llm", False))
UsesLlm(kind, use_llm) == kind = "freeform" /\ Truthy(use_llm)

\* if not self.allow_llm: report and return
Disabled(a) == ~a.allow_llm

\* One entry of the batch reaches the dispatch chain of run(); a typed or
\* unknown kind is reported at once, a freeform one enters the handler.
LlmDispatch(kind, use_llm) ==
    /\ llm.made
    /\ llm.pc \in {"idle", "done"}
    /\ llm.entries < MaxLlmEntries
    /\ LET a == [llm EXCEPT !.kind = kind, !.use_llm = use_llm, !.steps = 0,
                            !.calls = 0, !.waits = 0, !.report = "",
                            !.entries = @ + 1]
       IN llm' = IF kind \in TypedKinds
                 THEN [a EXCEPT !.pc = "done", !.report = "typed"]
                 ELSE IF UsesLlm(kind, use_llm)
                 THEN IF Disabled(a)
                      THEN [a EXCEPT !.pc = "done", !.report = "disabled"]
                      ELSE [a EXCEPT !.pc = "loop"]
                 ELSE [a EXCEPT !.pc = "done", !.report = "unknown"]
    /\ UNCHANGED <<fileVars, agentVars, workerVars, histVars, prodVars, now, lim, limCall,
                   spends, bo, boCall, boHist, permits, sched, schedCall, gate, held,
                   gateCall, fnCall, traceVars>>

\* A loop iteration that finds the minimum interval not yet over:
\* steps += 1; time.sleep(0.1); continue
LlmWait(over) ==
    /\ llm.made
    /\ llm.pc = "loop"
    /\ llm.steps < max_steps_per_command
    /\ ~llm_allowed(llm, now)
    /\ now + PollSleep + over <= MaxLlmTime
    /\ now' = now + PollSleep + over
    /\ llm' = [llm EXCEPT !.steps = @ + 1, !.waits = @ + 1]
    /\ UNCHANGED <<fileVars, agentVars, workerVars, histVars, prodVars, lim, limCall,
                   spends, bo, boCall, boHist, permits, sched, schedCall, gate, held,
                   gateCall, fnCall, traceVars>>

\* A loop iteration that calls the backend: steps += 1; _reserve_llm();
\* resp = self.backend.step(...); a tool call is made and the loop goes on
\* unless the tool result is an error; any other response is the final one.
LlmStep(resp, err, d) ==
    /\ llm.made
    /\ llm.pc = "loop"
    /\ llm.steps < max_steps_per_command
    /\ llm_allowed(llm, now)
    /\ now + d <= MaxLlmTime
    /\ now' = now + d
    /\ LET a == [reserve_llm(llm, now) EXCEPT !.steps = @ + 1, !.calls = @ + 1]
       IN llm' = IF resp = "tool_call"
                 THEN IF err THEN [a EXCEPT !.pc = "done", !.report = "stopped"]
                      ELSE a
                 ELSE [a EXCEPT !.pc = "done", !.report = "final"]
    /\ UNCHANGED <<fileVars, agentVars, workerVars, histVars, prodVars, lim, limCall,
                   spends, bo, boCall, boHist, permits, sched, schedCall, gate, held,
                   gateCall, fnCall, traceVars>>

\* The while condition fails: "ERROR: exceeded max steps."
LlmExceeded ==
    /\ llm.made
    /\ llm.pc = "loop"
    /\ llm.steps >= max_steps_per_command
    /\ llm' = [llm EXCEPT !.pc = "done", !.report = "exceeded"]
    /\ UNCHANGED <<fileVars, agentVars, workerVars, histVars, prodVars, now, lim, limCall,
                   spends, bo, boCall, boHist, permits, sched, schedCall, gate, held,
                   gateCall, fnCall, traceVars>>

Responses == {"tool_call", "final"}
\* How long the backend step and the tool call take together.
StepTimes == {0, 3, min_llm_interval}
Oversleeps == {0, 1}

\* An agent just constructed, with ALLOW_LLM set or not.
InitFreeform ==
    /\ AgentAbsent
    /\ now = 0
    /\ lim = NoLimiter /\ limCall = NoCall /\ spends = <<>>
    /\ bo = NoBackoff /\ boCall = NoCall /\ boHist = NoBoHist
    /\ permits = 0
    /\ sched = NoScheduler /\ schedCall = NoCall
    /\ gate = NoGate /\ held = <<>> /\ gateCall = NoCall
    /\ fnCall = NoCall
    /\ \E allow \in BOOLEAN : llm = NewAgentLlm(allow, now)

NextFreeform ==
    \/ \E kind \in LlmKinds, use_llm \in UseLlmVals : LlmDispatch(kind, use_llm)
    \/ \E over \in Oversleeps : LlmWait(over)
    \/ \E resp \in Responses, err \in BOOLEAN, d \in StepTimes : LlmStep(resp, err, d)
    \/ LlmExceeded

SpecFreeform == InitFreeform /\ [][NextFreeform]_vars

\* ====================================================================
\* A worker built on FastMCP (mcp/server/fastmcp.py)
\* ====================================================================

\* None, the id of a response that carries no request's id.
NullId == 0 - 1

\* print(f"[FastMCP] {self.name} started."): a line of stdout that is no JSON.
BannerLine == [json |-> FALSE, id |-> NullId, shape |-> "banner"]

\* The registered tools.
FastMcpTools == {"ln_getinfo"}
\* What a registered tool does when called: it returns a result, returns an
\* error object, raises, or returns something json.dumps cannot encode.
ToolOutcomes == {"ok", "err", "raise", "unserializable"}

\* {"id": None, "error": str(e)} of the except clause.
ErrorIdNone == [json |-> TRUE, id |-> NullId, shape |-> "err"]

\* _handle_request(line): json.loads(line.strip()) fails on an empty line and
\* on a line that is no JSON, request.get fails when the JSON is no object;
\* request_id = request.get("id"); a tool that raises lands in the same
\* except clause as a line that does not parse.
fastmcp_handle_request(line, outcome) ==
    IF line \in {BlankLine, GarbageLine, NonObjLine} THEN ErrorIdNone
    ELSE LET request_id == IF "id" \in DOMAIN line THEN line.id ELSE NullId
             method == IF "method" \in DOMAIN line THEN line.method ELSE "None"
         IN IF method \notin FastMcpTools
            THEN [json |-> TRUE, id |-> request_id, shape |-> "err"]
            ELSE IF outcome = "raise" THEN ErrorIdNone
            ELSE [json |-> TRUE, id |-> request_id, shape |-> outcome]

\* sys.stdout.write(json.dumps(response) + "\n"): json.dumps raises on a
\* result it cannot encode, and run() swallows the exception.
fastmcp_write(response) ==
    IF response.shape = "unserializable" THEN <<>> ELSE <<response>>

\* run(), before its loop: the banner is printed and flushed.
FastMcpStart ==
    /\ fnCall.op = "FastMCP"
    /\ wstdout' = Append(wstdout, BannerLine)
    /\ fnCall' = [fnCall EXCEPT !.op = "run"]
    /\ UNCHANGED <<fileVars, agentVars, walive, wstdin, histVars, prodVars, now, lim,
                   limCall, spends, bo, boCall, boHist, permits, sched, schedCall, gate,
                   held, gateCall, llm, traceVars>>

\* run(), one turn of its loop with a line on stdin.
FastMcpHandle ==
    /\ fnCall.op = "run"
    /\ wstdin # <<>>
    /\ \E outcome \in ToolOutcomes :
          wstdout' = wstdout \o fastmcp_write(fastmcp_handle_request(Head(wstdin), outcome))
    /\ wstdin' = Tail(wstdin)
    /\ fnCall' = [fnCall EXCEPT !.n = @ + 1, !.read = Append(@, Head(wstdin))]
    /\ UNCHANGED <<fileVars, agentVars, walive, histVars, prodVars, now, lim, limCall,
                   spends, bo, boCall, boHist, permits, sched, schedCall, gate, held,
                   gateCall, llm, traceVars>>

\* No agent; a FastMCP object constructed, its input written by some client.
InitFastMcp ==
    /\ inbox = <<>> /\ outbox = <<>>
    /\ offsetFile = NoFile /\ counterFile = NoFile
    /\ pc = "down"
    /\ rn = NoRn /\ msgs = <<>> /\ idx = 0 /\ cur = NoCur /\ mcpId = 0
    /\ walive = TRUE /\ wstdout = <<>>
    /\ wstdin \in SeqsUpTo(StdinLines, MaxRequests)
    /\ delivered = <<>> /\ downs = 0 /\ stopCause = "none"
    /\ crashInfo = NoCrash /\ firstRead = Untracked /\ cursorHigh = 0
    /\ TraceInit
    /\ ProdInit
    /\ now = 0
    /\ lim = NoLimiter /\ limCall = NoCall /\ spends = <<>>
    /\ bo = NoBackoff /\ boCall = NoCall /\ boHist = NoBoHist
    /\ permits = 0
    /\ sched = NoScheduler /\ schedCall = NoCall
    /\ gate = NoGate /\ held = <<>> /\ gateCall = NoCall
    /\ fnCall = [op |-> "FastMCP", n |-> 0, read |-> <<>>]
    /\ llm = NoLlm

NextFastMcp == FastMcpStart \/ FastMcpHandle

SpecFastMcp == InitFastMcp /\ [][NextFastMcp]_vars

\* ====================================================================
\* Producers and the consumer at once (ai/command_queue.py, enqueue and
\* read_new).  read_new opens the inbox "rb" and takes no lock, so it may
\* read while f.write(line) has put only a part of the line into the file.
\* ====================================================================

\* enqueue(), lines 96-98: _lock(f), and the first bytes of the line are in
\* the file.
PAppendPart(p) ==
    /\ ppc[p] = "append"
    /\ \A q \in Producers : ppc[q] # "append_rest"
    /\ inbox' = inbox \o <<LB, Body(Msg(pn[p], "ping", "ok"))>>
    /\ ppc' = [ppc EXCEPT ![p] = "append_rest"]
    /\ UNCHANGED <<outbox, offsetFile, counterFile, agentVars, workerVars, histVars, pn,
                   pensure, pdone, lockHolder, pcrashes, coreVars, traceVars>>

\* enqueue(), lines 98-103: the rest of the line, flush, fsync, _unlock(f),
\* return msg.
PAppendRest(p) ==
    /\ ppc[p] = "append_rest"
    /\ inbox' = inbox \o <<RB, NL>>
    /\ ppc' = [ppc EXCEPT ![p] = "idle"]
    /\ pdone' = [pdone EXCEPT ![p] = pdone[p] + 1]
    /\ pn' = [pn EXCEPT ![p] = 0]
    /\ UNCHANGED <<outbox, offsetFile, counterFile, agentVars, workerVars, histVars,
                   pensure, lockHolder, pcrashes, coreVars, traceVars>>

\* No queue directory yet; the agent is at the start of a tick.
InitQueue ==
    /\ inbox = <<>> /\ outbox = <<>>
    /\ offsetFile = NoFile /\ counterFile = NoFile
    /\ pc = "tick"
    /\ rn = NoRn /\ msgs = <<>> /\ idx = 0 /\ cur = NoCur /\ mcpId = 0
    /\ walive = FALSE /\ wstdin = <<>> /\ wstdout = <<>>
    /\ delivered = <<>> /\ downs = 0 /\ stopCause = "none"
    /\ crashInfo = NoCrash /\ firstRead = Untracked /\ cursorHigh = 0
    /\ TraceInit
    /\ ProdInit
    /\ CoreAbsent

NextQueue ==
    \/ \E p \in Producers :
          \/ PStart(p)
          \/ PEnsureCheck(p)
          \/ PEnsureOpen(p)
          \/ PEnsureWrite(p)
          \/ PLock(p)
          \/ PRead(p)
          \/ PTruncate(p)
          \/ PWrite(p)
          \/ PUnlock(p)
          \/ PAppend(p)
          \/ PAppendPart(p)
          \/ PAppendRest(p)
    \/ ReadNewRead
    \/ ReadNewTruncate
    \/ ReadNewWrite
    \/ DispatchUnknown
    \/ LoopDone

SpecQueue == InitQueue /\ [][NextQueue]_vars

\* ====================================================================
\* The handlers that make several calls (ai/agent.py, _handle_ln_connect
\* and _handle_ln_openchannel), with what the tool calls return
\* ====================================================================

\* {}: the empty object.
EmptyObj == [t |-> "empty"]
\* A tool result with a "payload" member beside error, ok and result.
Reply(error, ok, result, payload) ==
    [t |-> "dict", error |-> error, ok |-> ok, result |-> result, payload |-> payload]

\* isinstance(v, dict) for a payload
IsInstanceDict(v) == v.t \in {"dict", "obj", "empty"}

\* cur[k] of _safe_get, Absent when k is not in cur.
Member(d, k) == IF k = "result" THEN d.result ELSE d.payload

\* _safe_get(d, *keys, default=default)
RECURSIVE safe_get(_, _, _)
safe_get(d, keys, default) ==
    IF keys = <<>> THEN d
    ELSE IF d.t # "dict" \/ Member(d, Head(keys)) = Absent THEN default
    ELSE safe_get(Member(d, Head(keys)), Tail(keys), default)

\* payload = _safe_get(to_info, "result", "payload", default=None)
\*           or _safe_get(to_info, "payload", default={})
PayloadOf(to_info) ==
    LET nested == safe_get(to_info, <<"result", "payload">>, JNull)
    IN IF Truthy(nested) THEN nested ELSE safe_get(to_info, <<"payload">>, EmptyObj)

\* The method of the handler's next self.mcp.call after the calls made so
\* far, "none" when the handler reports and returns.
NextMethod(kind, calls) ==
    IF calls = <<>> THEN "ln_getinfo"
    ELSE IF Len(calls) = 1
    THEN IF IsInstanceDict(PayloadOf(calls[1].result)) THEN "ln_connect" ELSE "none"
    ELSE IF Len(calls) = 2 /\ kind = "ln_openchannel" THEN "ln_openchannel"
    ELSE "none"

\* What a tool call may return: a getinfo result with its payload, the four
\* error shapes of _is_tool_error, an error that carries a payload that is
\* no object, a result that is no object.
HandlerReplies ==
    {Reply(Absent, Absent, Reply(Absent, JBool(TRUE), Absent, JObj), Absent),
     Reply(JStr(<<"b">>), Absent, Absent, Absent),
     Reply(JStr(<<"b">>), JBool(FALSE), Absent, Absent),
     Reply(Absent, Absent, Reply(JStr(<<"b">>), Absent, Absent, Absent), Absent),
     Reply(Absent, Absent, Reply(JStr(<<"b">>), JBool(FALSE), Absent, Absent), Absent),
     Reply(Absent, Absent, Reply(Absent, JBool(FALSE), Absent, JStr(<<"b">>)), Absent),
     JNum(5)}

\* The handler's next self.mcp.call(...) is made and returns result.
MultiStepCall(result) ==
    /\ fnCall.op = "handler"
    /\ NextMethod(fnCall.kind, fnCall.calls) # "none"
    /\ fnCall' = [fnCall EXCEPT
                    !.n = @ + 1,
                    !.calls = Append(@, [method |-> NextMethod(fnCall.kind, fnCall.calls),
                                         result |-> result])]
    /\ UNCHANGED <<fileVars, agentVars, workerVars, histVars, prodVars, now, lim, limCall,
                   spends, bo, boCall, boHist, permits, sched, schedCall, gate, held,
                   gateCall, llm, traceVars>>

\* self._write_report(req_id, ...); the handler returns.
MultiStepReport ==
    /\ fnCall.op = "handler"
    /\ NextMethod(fnCall.kind, fnCall.calls) = "none"
    /\ fnCall' = [fnCall EXCEPT
                    !.op = "handled",
                    !.report = IF Len(fnCall.calls) = 1 THEN "could not resolve"
                               ELSE "result"]
    /\ UNCHANGED <<fileVars, agentVars, workerVars, histVars, prodVars, now, lim, limCall,
                   spends, bo, boCall, boHist, permits, sched, schedCall, gate, held,
                   gateCall, llm, traceVars>>

MultiStepKinds == {"ln_connect", "ln_openchannel"}

\* run() has just called one of the two handlers.
InitMultiStep ==
    /\ AgentAbsent
    /\ now = 0
    /\ lim = NoLimiter /\ limCall = NoCall /\ spends = <<>>
    /\ bo = NoBackoff /\ boCall = NoCall /\ boHist = NoBoHist
    /\ permits = 0
    /\ sched = NoScheduler /\ schedCall = NoCall
    /\ gate = NoGate /\ held = <<>> /\ gateCall = NoCall
    /\ \E kind \in MultiStepKinds :
          fnCall = [op |-> "handler", n |-> 0, kind |-> kind, calls |-> <<>>, report |-> ""]
    /\ llm = NoLlm

NextMultiStep ==
    \/ \E result \in HandlerReplies : MultiStepCall(result)
    \/ MultiStepReport

SpecMultiStep == InitMultiStep /\ [][NextMultiStep]_vars

\* ====================================================================
\* Claims
\* ====================================================================

\* The queue entries of a log, read as a whole: the complete lines that are
\* one JSON object, in order.
IsEntryLine(ln) == Len(ln) = 3 /\ ln[1] = LB /\ ln[2].c = "b" /\ ln[3] = RB
RECURSIVE EntriesOf(_)
EntriesOf(log) ==
    IF \A i \in 1..Len(log) : log[i] # NL THEN <<>>
    ELSE LET k == CHOOSE i \in 1..Len(log) :
                      log[i] = NL /\ \A j \in 1..(i - 1) : log[j] # NL
             ln == SubSeq(log, 1, k - 1)
         IN (IF IsEntryLine(ln) THEN <<Msg(ln[2].id, ln[2].kind, ln[2].args)>> ELSE <<>>)
            \o EntriesOf(SubSeq(log, k + 1, Len(log)))

HasReport(id) == \E j \in DOMAIN outbox : outbox[j].request_id = id

C2_CrashMidBatchRedelivers ==
    (crashInfo.at = "handling" /\ crashInfo.rest # <<>> /\ firstRead.set) =>
        IsPrefix(crashInfo.batch, firstRead.batch)

\* C3: when a tick has ended (no crash, no interrupt), every entry read_new
\* has returned has a result record with its id in the outbox.
C3_EveryEntryGetsResult ==
    (downs = 0 /\ pc = "tick") =>
        \A i \in DOMAIN delivered : HasReport(delivered[i].id)

\* The ids of the entries in the inbox.
InboxIds == LET es == EntriesOf(inbox) IN [i \in DOMAIN es |-> es[i].id]

\* C4: under any interleaving of concurrent enqueue calls, first use of the
\* queue directory and producer restarts included, no two entries in the inbox
\* carry the same id.
C4_UniqueIds ==
    \A i, j \in DOMAIN InboxIds : i # j => InboxIds[i] # InboxIds[j]

\* C5: after a crash inside read_new, once the entries are parsed and before
\* the new cursor is written, the first read_new after the restart finds the
\* cursor the interrupted call had read and returns the same entries again.
C5_CrashBeforeAdvanceRedelivers ==
    (crashInfo.at \in {"parsed", "truncated"} /\ firstRead.set) =>
        /\ firstRead.offset = crashInfo.offset
        /\ IsPrefix(crashInfo.batch, firstRead.batch)

\* C6: the persisted cursor never falls below a value a read_new call has
\* written, over read_new calls, enqueues and crash/restarts of the agent; and
\* a read_new call that has returned left it at the offset it read plus the
\* number of bytes it read.
C6_CursorMonotone ==
    /\ pc # "truncated" => Cursor >= cursorHigh
    /\ (pc = "loop" /\ idx = 1) => Cursor = rn.offset + rn.len

\* C7: run() has ended only if KeyboardInterrupt was raised: no exception of a
\* tick (queue reading, handler, protocol call) ends the loop.
C7_OnlyInterruptStops ==
    pc = "stopped" => stopCause = "KeyboardInterrupt"

\* C7 witness: the handler of the first entry raised (no result for it) and
\* the loop went on: a later tick has handled the second entry.
C7_Witness ==
    /\ downs = 0 /\ pc \in Running
    /\ Len(delivered) = 2
    /\ delivered[1].args = "missing"
    /\ ~HasReport(delivered[1].id)
    /\ HasReport(delivered[2].id)

\* C8: one entry enqueued into an empty queue and the tick that read it over:
\* the outbox holds exactly one record, its request_id is the entry's id, and
\* the cursor is the byte length of the inbox.
C8_SingleEntryOneResult ==
    (downs = 0 /\ pc = "tick" /\ Len(SplitLines(inbox)) = 1 /\ Len(delivered) = 1) =>
        /\ Len(outbox) = 1
        /\ outbox[1].request_id = delivered[1].id
        /\ Cursor = Len(inbox)

\* C9: at most one request is in flight: the requests the worker has not read
\* yet and the responses the client has not read yet are never more than one.
C9_OneOutstanding ==
    Len(wstdin) + Len(wstdout) <= 1

\* C9 witness: the second request of this client is outstanding, the first
\* call being over.
C9_Witness ==
    /\ mcpId = 2 /\ pc = "read"
    /\ Len(wstdin) = 1 /\ wstdin[1].id = 2

\* C10: a response FastMCPClient.call returns carries the id of the request
\* that call sent.
C10_ResponseIdMatches ==
    pc = "ret" => cur.res.id = mcpId

\* C10 witness: the second call of a client returns, with the worker still
\* running.
C10_Witness ==
    /\ pc = "ret" /\ mcpId = 2 /\ walive

\* ------------------------------------------------- admission, limiter

\* C11: while a protocol call of the agent is in flight, the backoff is not
\* blocked, the last answer of the rate limiter's allowed() was true, and the
\* agent holds a permit of the concurrency gate.
C11_CallOnlyWhenAdmitted ==
    pc \in {"poll", "read"} =>
        /\ bo.made /\ ~blocked(bo, now)
        /\ lim.made /\ limCall.op = "allowed" /\ limCall.res
        /\ permits >= 1

\* Every spend() so far directly followed an allowed() that returned true.
SpendsGated == \A i \in DOMAIN spends : spends[i].gated
InWindow(i, j) ==
    spends[j].ok /\ spends[i].t <= spends[j].t
    /\ spends[j].t < spends[i].t + UnitsPerMinute
RECURSIVE WindowCost(_, _)
WindowCost(i, j) ==
    IF j > Len(spends) THEN 0
    ELSE (IF InWindow(i, j) THEN spends[j].cost ELSE 0) + WindowCost(i, j + 1)

\* C12: when spend is called only right after allowed returned true, any
\* window of one minute holds at most rpm spends and at most tpm of cost.
C12_BudgetPerWindow ==
    SpendsGated =>
        \A i \in DOMAIN spends :
            /\ Cardinality({j \in DOMAIN spends : InWindow(i, j)}) <= lim.req.refill_per_s
            /\ WindowCost(i, 1) <= lim.tok.refill_per_s

\* The three reasons allowed() has to refuse, read off the limiter before the
\* call: the spacing gate, the request bucket, the cost bucket for an amount.
Refuses(call, amount) ==
    \/ call.t < call.pre.next
    \/ refill(call.pre.req, call.t).tokens < Tokens(1)
    \/ refill(call.pre.tok, call.t).tokens < Tokens(amount)

\* C13 as stated: allowed(estimated_cost) returns false exactly when now is
\* before the next allowed time, or the refilled request bucket holds less than
\* 1.0, or the refilled cost bucket holds less than estimated_cost.
C13_AllowedDecisionAsStated ==
    limCall.op = "allowed" => (limCall.res <=> ~Refuses(limCall, limCall.est))

\* C13, amended: the same with the cost bucket tested for
\* max(1, estimated_cost) tokens.
C13_AllowedDecision ==
    limCall.op = "allowed" => (limCall.res <=> ~Refuses(limCall, Max(1, limCall.est)))

\* C13 witness: allowed(0) refuses because the cost bucket holds less than one
\* token, the spacing gate and the request bucket being open.
C13_Witness ==
    /\ limCall.op = "allowed" /\ limCall.est = 0 /\ ~limCall.res
    /\ limCall.t >= limCall.pre.next
    /\ refill(limCall.pre.req, limCall.t).tokens >= Tokens(1)
    /\ refill(limCall.pre.tok, limCall.t).tokens < Tokens(1)

\* The limiter of the example: rpm=2, tpm=100, min_interval=0.
IsExampleLimiter ==
    /\ lim.made
    /\ lim.req.capacity = Tokens(2) /\ lim.tok.capacity = Tokens(100)
    /\ lim.min_interval = 0
SpentAtStart(n) ==
    /\ Len(spends) = n
    /\ \A i \in DOMAIN spends : spends[i].ok /\ spends[i].t = 0

\* C14: for rpm=2, tpm=100, min_interval=0: at construction time allowed()
\* returns true while fewer than two spends were made, a spend that follows it
\* succeeds, and after two spends at construction time allowed() returns false
\* before half a minute has passed and true from then on.
C14_TwoThenRefill ==
    IsExampleLimiter =>
        /\ \A i \in DOMAIN spends : spends[i].gated => spends[i].ok
        /\ (limCall.op = "allowed" /\ limCall.t = 0 /\ limCall.nspent < 2
            /\ \E n \in 0..1 : SpentAtStart(n))
           => limCall.res
        /\ (limCall.op = "allowed" /\ SpentAtStart(2))
           => (limCall.res <=> limCall.t >= UnitsPerMinute \div 2)

\* C14 witness: two pairs at construction time, the third pair half a minute
\* later, all three successful.
C14_Witness ==
    /\ IsExampleLimiter
    /\ Len(spends) = 3
    /\ \A i \in DOMAIN spends : spends[i].gated /\ spends[i].ok
    /\ spends[1].t = 0 /\ spends[2].t = 0 /\ spends[3].t = UnitsPerMinute \div 2

\* C15: a successful spend leaves the next allowed time at least min_interval
\* after its own time; no call moves it backwards; any two spends that each
\* directly follow an allowed() returning true are at least min_interval apart.
C15_MinInterval ==
    lim.made =>
        /\ (limCall.op = "spend" /\ limCall.res) => lim.next >= limCall.t + lim.min_interval
        /\ limCall.op # "none" => lim.next >= limCall.pre.next
        /\ \A i, j \in DOMAIN spends :
              (i < j /\ spends[i].gated /\ spends[j].gated)
                  => spends[j].t - spends[i].t >= lim.min_interval

\* C15 witness: with a min_interval of one time unit, two admitted spends
\* exactly one time unit apart.
C15_Witness ==
    /\ lim.made /\ lim.min_interval = 1
    /\ Len(spends) = 2
    /\ spends[1].gated /\ spends[2].gated
    /\ spends[2].t = spends[1].t + 1

\* C16: reconcile_actual never fails; with actual <= estimated it changes
\* nothing; with actual > estimated the refilled cost bucket loses exactly the
\* difference if it holds it and nothing otherwise; the request bucket and the
\* next allowed time are as before.
C16_Reconcile ==
    limCall.op = "reconcile" =>
        LET diff == limCall.actual - limCall.est
            r == refill(limCall.pre.tok, limCall.t)
        IN /\ limCall.res
           /\ lim.req = limCall.pre.req
           /\ lim.next = limCall.pre.next
           /\ diff <= 0 => lim = limCall.pre
           /\ diff > 0 =>
                lim.tok = [r EXCEPT !.tokens = IF r.tokens >= Tokens(diff)
                                               THEN r.tokens - Tokens(diff)
                                               ELSE r.tokens]

\* C16 witness: actual exceeds the estimate and the cost bucket does not hold
\* the difference: nothing is debited.
C16_Witness ==
    /\ limCall.op = "reconcile"
    /\ limCall.actual > limCall.est
    /\ refill(limCall.pre.tok, limCall.t).tokens < Tokens(limCall.actual - limCall.est)
    /\ lim.tok.tokens = refill(limCall.pre.tok, limCall.t).tokens

\* ------------------------------------------------------------ backoff

\* C17 as stated: once circuit_breaker_after note_failure calls in a row, with
\* no note_success between them, have been made, blocked() is true at every
\* time before the time of the last of them plus circuit_breaker_open_ms,
\* whatever follows.
C17_CircuitOpenAsStated ==
    bo.made => \A t \in 0..(boHist.dueStated - 1) : blocked(bo, t)

\* C17, amended: the same for note_failure calls counted from the
\* construction, the last note_success or the last opening of the circuit.
C17_CircuitOpen ==
    bo.made => \A t \in 0..(boHist.due - 1) : blocked(bo, t)

\* C17 witness: the failure that reached the threshold has just opened the
\* circuit; time has passed, the backoff delay is over, and blocked() is true
\* because of the circuit.
C17_Witness ==
    /\ bo.made /\ boCall.op = "failure"
    /\ boHist.run = bo.cb_after
    /\ boHist.due = boCall.t + bo.cb_open
    /\ boCall.t < now /\ bo.blocked_until <= now /\ now < boHist.due
    /\ blocked(bo, now)

\* C18: every opening of the circuit came with at least circuit_breaker_after
\* failures since the last note_success, and note_success leaves
\* consecutive_failures and attempt at 0.
C18_SuccessResets ==
    bo.made =>
        /\ boHist.opened => boHist.openRun >= bo.cb_after
        /\ boCall.op = "success" => bo.attempt = 0 /\ bo.consecutive_failures = 0

\* C18 witness: as many failures as the threshold have been noted in all, a
\* success between them, and the circuit has never opened.
C18_Witness ==
    /\ bo.made /\ boCall.op = "failure"
    /\ boHist.fails >= bo.cb_after
    /\ ~boHist.opened /\ bo.circuit_open_until = 0

\* C19: circuit_open_until never decreases, note_success leaves it as it was,
\* and blocked() is true at every time before it.
C19_CircuitNeverClosed ==
    bo.made =>
        /\ bo.circuit_open_until = boHist.cbHigh
        /\ boCall.op = "success" => bo.circuit_open_until = boCall.pre.circuit_open_until
        /\ \A t \in 0..(bo.circuit_open_until - 1) : blocked(bo, t)

\* C19 witness: a success noted while the circuit is open; blocked_until is
\* cleared and blocked() is still true.
C19_Witness ==
    /\ bo.made /\ boCall.op = "success"
    /\ bo.blocked_until = 0
    /\ now < bo.circuit_open_until
    /\ blocked(bo, now)

\* C20: note_failure(key, hint) leaves blocked_until no smaller than it was and
\* no smaller than now + max(computed delay, hint), the computed delay being
\* min(max_delay, base_delay * 2^(attempt_count - 1)) + jitter(key), with
\* 0 <= jitter(key) <= jitter_bound.
C20_BlockedUntilExtended ==
    boCall.op = "failure" =>
        LET pre == boCall.pre
            jitter == Jitter(pre, boCall.step_id)
            computed == Min(pre.max_ms, pre.base_ms * Pow2(pre.attempt)) + jitter
            delay == IF boCall.hint.some THEN Max(computed, boCall.hint.ms) ELSE computed
        IN /\ 0 <= jitter /\ jitter <= pre.jitter_ms
           /\ bo.blocked_until >= pre.blocked_until
           /\ bo.blocked_until >= boCall.t + delay

\* C20 witness: a failure whose own delay ends before the blocked_until already
\* set by an earlier failure with a longer hint: blocked_until is kept.
C20_Witness ==
    /\ boCall.op = "failure"
    /\ ~boCall.hint.some
    /\ bo.blocked_until = boCall.pre.blocked_until
    /\ bo.blocked_until > boCall.t + bo.max_ms + bo.jitter_ms

\* C21: two DeterministicBackoff instances built with the same parameters and
\* fed the same note_failure(step_id, retry_after) calls at the same times have
\* identical blocked_until timestamps: the jitter depends on step_id alone,
\* not on the interpreter that holds the instance.
C21_TwinsAgree ==
    bo.made =>
        /\ boHist.twin.made
        /\ boHist.twin.hashseed # bo.hashseed
        /\ boHist.twin.blocked_until = bo.blocked_until

\* C21 witness: a failure whose delay had a non-zero jitter has moved
\* blocked_until of both instances to the same time.
C21_Witness ==
    /\ boCall.op = "failure"
    /\ Jitter(boCall.pre, boCall.step_id) > 0
    /\ bo.blocked_until > boCall.pre.blocked_until
    /\ bo.blocked_until = boCall.t + Delay(boCall.pre, boCall.pre.attempt + 1,
                                           boCall.step_id, boCall.hint)
    /\ boHist.twin.blocked_until = bo.blocked_until

\* --------------------------------------------------------------------
\* scheduler, concurrency gate
\* --------------------------------------------------------------------

\* C22: the k-th call of wait_next_tick (k = 0, 1, 2, ...) has the target
\* t0 + k*cadence, whatever the earlier iterations took; it returns no earlier
\* than the target, and a caller that arrives before the target sleeps for
\* exactly the time left to it (one that arrives later does not sleep).
C22_TickTargets ==
    schedCall.op = "wait" =>
        LET k == schedCall.n - 1
            target == sched.t0 + k * sched.cadence
        IN /\ schedCall.target = target
           /\ schedCall.ret >= target
           /\ schedCall.arrive < target => schedCall.slept = target - schedCall.arrive
           /\ schedCall.arrive >= target =>
                  schedCall.slept = 0 /\ schedCall.ret = schedCall.arrive

\* C22 witness: after an iteration that overran its tick (the call before
\* returned late or work took longer than the cadence), a later call arrives
\* early and sleeps to its own target.
C22_Witness ==
    /\ schedCall.op = "wait"
    /\ schedCall.n >= 3
    /\ schedCall.arrive < schedCall.target
    /\ schedCall.slept > 0
    /\ schedCall.slept < sched.cadence
    /\ schedCall.arrive - sched.t0 > (schedCall.n - 2) * sched.cadence

\* C23: as long as release is called only by a thread that holds a permit
\* (once per successful acquire), the permits held over all threads never
\* exceed max_in_flight (at least 1), and acquire() with no free permit
\* returns false and leaves no caller waiting.
C23_GateBound ==
    (gate.made /\ ~gate.stray) =>
        /\ gate.size >= 1
        /\ InFlight <= gate.size
        /\ InFlight + gate.value = gate.size
        /\ (gateCall.op = "acquire" /\ gateCall.pre.value = 0) =>
               (~gateCall.res /\ ~gateCall.waits /\ gate = gateCall.pre)

\* C23 witness: a gate built with max_in_flight = 0 holds one permit; with it
\* taken, and after a release and a new acquire, another thread's acquire()
\* returned false.
C23_Witness ==
    /\ gate.made /\ ~gate.stray
    /\ gate.size = 1
    /\ gateCall.op = "acquire" /\ ~gateCall.res
    /\ gateCall.n >= 4
    /\ InFlight = 1
    /\ held[gateCall.th] = 0

\* --------------------------------------------------------------------
\* handlers, protocol client, worker
\* --------------------------------------------------------------------

\* C24: handling one queue entry of a recognized kind makes exactly one
\* protocol call to the worker: a request that has been written for the entry
\* in hand is the handler's first, and the handler reports after its first call.
C24_OneCallPerEntry ==
    /\ pc \in {"poll", "read", "ret"} => cur.step = 1
    /\ pc = "send" => cur.step = 1

\* A level of a payload carries an error field (null counts as none).
CarriesError(d) == d.error \notin {Absent, JNull}
\* What the claims expect of one level that carries an error or ok=false.
StatedLevel(d) ==
    IF CarriesError(d) THEN Some(StrOf(d.error))
    ELSE IF OkIsFalse(d) THEN Some(DefaultMsg)
    ELSE None

\* C25: _is_tool_error reports message x for {"error": x}, y for
\* {"ok": false, "error": y}, z for {"result": {"error": z}} and a default
\* message for {"result": {"ok": false}}; a top-level error wins over a
\* top-level ok=false, and the nested result decides only when the top level
\* carries neither an error nor ok=false.
C25_ShapesAndPrecedence ==
    (fnCall.op = "_is_tool_error" /\ IsDict(fnCall.arg)) =>
        LET p == fnCall.arg
        IN IF CarriesError(p) \/ OkIsFalse(p) THEN fnCall.out = StatedLevel(p)
           ELSE IF IsDict(p.result) THEN fnCall.out = StatedLevel(p.result)
           ELSE fnCall.out = None

\* C26: a response with an error field at top level or inside result is
\* classified as an error, whatever the shape of the error value.
C26_EveryErrorShapeIsError ==
    (fnCall.op = "_is_tool_error" /\ IsDict(fnCall.arg)) =>
        LET p == fnCall.arg
        IN (CarriesError(p) \/ (IsDict(p.result) /\ CarriesError(p.result)))
               => ~fnCall.out.none

\* C27: FastMCPClient.call returns no value when the worker has already
\* exited, when the read of the response gives no data, or when the line read
\* is no JSON, and in all these cases it fails with the same kind of error
\* (the RuntimeError that stands for an unavailable worker).
C27_SameErrorKind ==
    callOut.cause \in {"exited", "nodata", "nonjson"} => callOut.kind = "RuntimeError"

\* The lines read that are requests: all but the empty ones.
RequestLines(read) == SelectSeq(read, LAMBDA l : l # BlankLine)
IsObjectLine(l) == l \notin {BlankLine, GarbageLine, NonObjLine}

\* C28: the worker has written exactly one response line for every non-empty
\* line it has read, in the order of the lines; the response to a JSON object
\* with an id carries that id; an unknown method, a missing method and a line
\* that is no JSON object are answered with an error, and the lines after
\* them are answered like any other.
C28_OneResponsePerLine ==
    fnCall.op = "main" =>
        LET reqs == RequestLines(fnCall.read)
        IN /\ walive
           /\ Len(wstdout) = Len(reqs)
           /\ \A i \in 1..Len(reqs) :
                 /\ wstdout[i].json
                 /\ (IsObjectLine(reqs[i]) /\ "id" \in DOMAIN reqs[i])
                        => wstdout[i].id = reqs[i].id
                 /\ (~IsObjectLine(reqs[i]) \/ "method" \notin DOMAIN reqs[i]
                        \/ reqs[i].method \notin WorkerMethods)
                        => wstdout[i].shape = "err"

\* C28 witness: a line that is no JSON, a request for an unknown method and a
\* request whose tool succeeds, read in this order; three responses, the last
\* with the id of the last request.
C28_Witness ==
    /\ fnCall.op = "main"
    /\ fnCall.read = <<GarbageLine, Request(2, "nope"), Request(1, "ln_getinfo")>>
    /\ Len(wstdout) = 3
    /\ wstdout[1] = ErrorId0
    /\ wstdout[2].id = 2 /\ wstdout[2].shape = "err"
    /\ wstdout[3].id = 1 /\ wstdout[3].shape = "ok"

\* --------------------------------------------------------------------
\* ordering of results, retries
\* --------------------------------------------------------------------

\* The position of the first result record of an entry in the outbox.
FirstReport(id) ==
    CHOOSE j \in DOMAIN outbox :
        /\ outbox[j].request_id = id
        /\ \A k \in 1..(j - 1) : outbox[k].request_id # id

\* C29: for two entries of the inbox log that both have a result record, the
\* result of the one that comes first in the inbox comes first in the outbox.
C29_ResultsFifo ==
    \A i, j \in DOMAIN InboxIds :
        (i < j /\ HasReport(InboxIds[i]) /\ HasReport(InboxIds[j]))
            => FirstReport(InboxIds[i]) < FirstReport(InboxIds[j])

\* C30: as long as the agent process has not been killed, no entry has had its
\* operation sent to the worker by more than one run of its handler.
C30_NoRetry ==
    ~crashed => \A id \in DOMAIN dispatched : dispatched[id] <= 1

\* C31: the backend's step is called only while handling an entry whose
\* kind is "freeform" with a true use_llm (true as bool() of the field
\* takes it) and only when allow_llm is set.
C31_LlmOnlyWhenOptedIn ==
    (llm.made /\ llm.calls > 0) =>
        /\ llm.kind = "freeform"
        /\ Truthy(llm.use_llm)
        /\ llm.allow_llm
        /\ llm.report \notin {"typed", "unknown", "disabled"}

\* A freeform entry with use_llm true has had the backend called, and
\* the agent was started with ALLOW_LLM set.
C31_Witness ==
    /\ llm.made /\ llm.calls > 0 /\ llm.allow_llm
    /\ llm.kind = "freeform" /\ llm.use_llm = JBool(TRUE)
    /\ llm.report = "final"

\* C40: "exceeded max steps" is reported only after
\* max_steps_per_command calls of the backend's step for the request.
C40_ExceededOnlyAfterMaxCalls ==
    (llm.made /\ llm.report = "exceeded") => llm.calls = max_steps_per_command

\* C32: a worker built on FastMCP.run has written one line for each request
\* line it has received; the k-th line is JSON and carries the id of the
\* k-th request line, also when the tool raised; nothing else is on stdout.
C32_FastMcpResponses ==
    fnCall.op = "run" =>
        /\ Len(wstdout) = Len(fnCall.read)
        /\ \A k \in 1..Len(wstdout) :
              /\ wstdout[k].json
              /\ (k <= Len(fnCall.read) /\ IsObjectLine(fnCall.read[k])
                    /\ "id" \in DOMAIN fnCall.read[k])
                    => wstdout[k].id = fnCall.read[k].id

\* The entries with a given id in a list of parsed entries.
WithId(list, id) == SelectSeq(list, LAMBDA m : m.id = id)

\* C33: between two read_new calls, with no line half appended, every entry
\* of the inbox has been returned by exactly one read_new call or lies at or
\* after the cursor, where the next read_new call will return it.
C33_EveryEntryReturnedOnce ==
    (pc = "tick" /\ \A p \in Producers : ppc[p] # "append_rest") =>
        \A id \in 1..(NumProducers * MaxEnqueues) :
            Len(WithId(delivered, id)) + Len(WithId(ParseLines(Drop(inbox, Cursor)), id))
                = Len(WithId(ParseLines(inbox), id))

\* C34: in the inbox log no entry comes after an entry with a larger id.
C34_InboxIdOrder ==
    LET log == ParseLines(inbox)
    IN \A i, j \in 1..Len(log) : i < j => log[i].id <= log[j].id

\* C35: after every note_failure and note_success, attempt equals
\* consecutive_failures and both lie in 0..circuit_breaker_after-1; the
\* exponent note_failure used, attempt - 1 after its increment, is at most
\* circuit_breaker_after-1.
C35_AttemptIsFailures ==
    (bo.made /\ boCall.op # "none") =>
        /\ bo.attempt = bo.consecutive_failures
        /\ bo.attempt \in 0..(bo.cb_after - 1)
        /\ boCall.op = "failure" => (boCall.pre.attempt + 1) - 1 <= bo.cb_after - 1

\* C35 witness: a second failure in a row has been noted by a backoff whose
\* circuit opens at the third; one more failure would reset both counters.
C35_Witness ==
    /\ bo.made /\ boCall.op = "failure"
    /\ bo.cb_after = 3
    /\ bo.attempt = 2 /\ bo.consecutive_failures = 2

\* C36: in every state of the limiter, whatever calls of allowed, spend and
\* reconcile_actual were made (spend without a preceding allowed too), each
\* bucket holds at least 0 tokens and at most its capacity.
C36_BucketBounds ==
    lim.made =>
        /\ 0 <= lim.req.tokens /\ lim.req.tokens <= lim.req.capacity
        /\ 0 <= lim.tok.tokens /\ lim.tok.tokens <= lim.tok.capacity

\* C36 witness: a spend that no allowed preceded has raised on a request
\* bucket that time had refilled to less than one request.
C36_Witness ==
    /\ lim.made /\ limCall.op = "spend" /\ ~limCall.res
    /\ Len(spends) > 0 /\ ~spends[Len(spends)].gated
    /\ 0 < lim.req.tokens /\ lim.req.tokens < Tokens(1)
    /\ now > 0

\* C37: a spend that raised has left the limiter as if it had not been
\* called: neither bucket debited, the next allowed time unchanged.
C37_FailedSpendLeavesLimiter ==
    (lim.made /\ limCall.op = "spend" /\ ~limCall.res) =>
        /\ lim.req.tokens = refill(limCall.pre.req, limCall.t).tokens
        /\ lim.tok.tokens = refill(limCall.pre.tok, limCall.t).tokens
        /\ lim.next = limCall.pre.next

\* C38: whatever acquire and release calls were made on a gate, a release
\* without a matching acquire included, the permits held at the same time
\* are no more than the gate was built for (max_in_flight, at least 1).
C38_GateBoundAnyRelease ==
    gate.made => InFlight <= gate.size

\* C39: in the handlers of ln_connect and ln_openchannel no call follows a
\* call whose result is an error _is_tool_error recognizes: no ln_connect
\* after such a result of ln_getinfo, no ln_openchannel after such a result
\* of ln_connect.
C39_FailedStepStops ==
    fnCall.op \in {"handler", "handled"} =>
        \A i \in 1..Len(fnCall.calls) :
            i < Len(fnCall.calls) => is_tool_error(fnCall.calls[i].result).none

====
